---- MODULE Spec2Model ----
(***************************************************************************)
(* A model of mc-replay-go: the MCPR container Writer (package mcpr), the   *)
(* Recorder facade and the proxy recorder example (examples/proxyrec).     *)
(*                                                                         *)
(* Bytes are the integers 0..255 and byte strings are sequences of bytes.  *)
(* A 32-bit word that does not fit TLC's integers (a CRC-32 value) is a    *)
(* pair <<hi, lo>> of 16-bit halves.                                       *)
(***************************************************************************)
EXTENDS Integers, Sequences, FiniteSets, TLC

(***************************************************************************)
(* Bounds of the model.                                                    *)
(***************************************************************************)
\* calls a caller makes on one Writer
MaxOps == 3

(***************************************************************************)
(* Byte-string helpers.                                                    *)
(***************************************************************************)
RECURSIVE Concat(_)
Concat(ss) == IF ss = <<>> THEN <<>> ELSE Head(ss) \o Concat(Tail(ss))

IsPrefix(s, t) == Len(s) <= Len(t) /\ SubSeq(t, 1, Len(s)) = s

Max(a, b) == IF a > b THEN a ELSE b

RECURSIVE Xor(_, _)
Xor(a, b) ==
    IF a = 0 THEN b
    ELSE IF b = 0 THEN a
    ELSE (((a % 2) + (b % 2)) % 2) + 2 * Xor(a \div 2, b \div 2)

\* XOR, and shifts, of 32-bit words held as <<hi, lo>>
Xor32(x, y) == <<Xor(x[1], y[1]), Xor(x[2], y[2])>>
Shr1(x) == <<x[1] \div 2, ((x[1] % 2) * 32768) + (x[2] \div 2)>>
Shr8(x) == <<x[1] \div 256, ((x[1] % 256) * 256) + (x[2] \div 256)>>
Not32(x) == <<65535 - x[1], 65535 - x[2]>>

(***************************************************************************)
(* hash/crc32 with the IEEE polynomial, as crc32.NewIEEE() computes it.    *)
(***************************************************************************)
\* the reversed IEEE polynomial 0xedb88320
IEEEPoly == <<60856, 33568>>

RECURSIVE crcTableEntry(_, _)
crcTableEntry(c, k) ==
    IF k = 0 THEN c
    ELSE crcTableEntry(IF c[2] % 2 = 1 THEN Xor32(Shr1(c), IEEEPoly) ELSE Shr1(c), k - 1)

IEEETable == [i \in 0..255 |-> crcTableEntry(<<0, i>>, 8)]

\* the inner loop of the table-driven update: crc = tab[byte(crc)^v] ^ (crc >> 8)
\* (the guard makes TLC compute each step's value before it goes on)
RECURSIVE crcLoop(_, _)
crcLoop(c, p) ==
    IF p = <<>> THEN c
    ELSE LET next == Xor32(IEEETable[Xor(c[2] % 256, Head(p))], Shr8(c))
         IN  IF next[1] >= 0 THEN crcLoop(next, Tail(p)) ELSE next

\* digest.Write: the running value after p has been fed to a digest holding crc
crcUpdate(crc, p) == Not32(crcLoop(Not32(crc), p))

\* crc32.ChecksumIEEE
ChecksumIEEE(p) == crcUpdate(<<0, 0>>, p)

\* fmt.Sprintf("%d", v) for a uint32 v = <<hi, lo>>: its decimal digits in ASCII
RECURSIVE decimalDigits(_)
decimalDigits(v) ==
    LET qhi  == v[1] \div 10
        mid  == ((v[1] % 10) * 65536) + v[2]
        qlo  == mid \div 10
        d    == mid % 10
        \* qlo can exceed 16 bits only by carrying into the high half
        q    == <<qhi + (qlo \div 65536), qlo % 65536>>
    IN  IF q = <<0, 0>> THEN <<48 + d>> ELSE Append(decimalDigits(q), 48 + d)

Sprintf_d(v) == decimalDigits(v)

(***************************************************************************)
(* VarInt codec.                                                           *)
(***************************************************************************)
\* encodeVarInt without the continuation bit
RECURSIVE encodeVarIntNoFlag(_)
encodeVarIntNoFlag(v) ==
    LET b  == v % 128
        uv == IF v < 0 THEN (v \div 128) + 33554432 ELSE v \div 128
    IN  IF uv # 0 THEN <<b>> \o encodeVarIntNoFlag(uv) ELSE <<b>>

\* encodeVarInt(v int32): uv := uint32(v); 7 bits per byte, low group first.
\* uint32(v) & 0x7F is v % 128 and uint32(v) >> 7 is (v + 2^32) \div 128.
RECURSIVE encodeVarInt(_)
encodeVarInt(v) ==
    LET b  == v % 128
        uv == IF v < 0 THEN (v \div 128) + 33554432 ELSE v \div 128
    IN  IF uv # 0 THEN <<b + 128>> \o encodeVarInt(uv) ELSE <<b>>

\* 2^n for the shifts of readVarInt
RECURSIVE Pow2(_)
Pow2(n) == IF n = 0 THEN 1 ELSE 2 * Pow2(n - 1)

\* readVarInt's loop running up to six times
RECURSIVE readVarIntLoopSix(_, _, _)
readVarIntLoopSix(s, i, lo) ==
    IF i = 6 THEN [err |-> "varint too long", lo |-> 0, hi |-> 0, n |-> 6]
    ELSE IF Len(s) <= i THEN [err |-> "EOF", lo |-> 0, hi |-> 0, n |-> i]
    ELSE LET b == s[i + 1]
             g == b % 128
         IN  IF b < 128
             THEN IF i < 4
                  THEN [err |-> "nil", lo |-> lo + (g * Pow2(7 * i)), hi |-> 0, n |-> i + 1]
                  ELSE [err |-> "nil", lo |-> lo, hi |-> g, n |-> i + 1]
             ELSE readVarIntLoopSix(s, i + 1, IF i < 4 THEN lo + (g * Pow2(7 * i)) ELSE lo)

\* readVarInt's loop on the bytes s of a byte reader, i bytes already read.
\* The int64 result is hi * 2^28 + lo: the fifth group is kept apart in hi.
RECURSIVE readVarIntLoop(_, _, _)
readVarIntLoop(s, i, lo) ==
    IF i = 5 THEN [err |-> "varint too long", lo |-> 0, hi |-> 0, n |-> 5]
    ELSE IF Len(s) <= i THEN [err |-> "EOF", lo |-> 0, hi |-> 0, n |-> i]
    ELSE LET b == s[i + 1]
             g == b % 128
         IN  IF b < 128
             THEN IF i < 4
                  THEN [err |-> "nil", lo |-> lo + (g * Pow2(7 * i)), hi |-> 0, n |-> i + 1]
                  ELSE [err |-> "nil", lo |-> lo, hi |-> g, n |-> i + 1]
             ELSE readVarIntLoop(s, i + 1, IF i < 4 THEN lo + (g * Pow2(7 * i)) ELSE lo)

readVarInt(s) == readVarIntLoop(s, 0, 0)

\* int32(x) of the int64 a readVarInt returned: the low 32 bits, signed
toInt32(r) ==
    LET top == r.hi % 16
    IN  IF top >= 8 THEN ((top - 16) * 268435456) + r.lo ELSE (top * 268435456) + r.lo

\* binary.BigEndian.PutUint32 of a value below 2^31
PutUint32(v) ==
    <<v \div 16777216, (v \div 65536) % 256, (v \div 256) % 256, v % 256>>

\* binary.BigEndian.Uint32 of four bytes (the first below 128)
Uint32(b) == (b[1] * 16777216) + (b[2] * 65536) + (b[3] * 256) + b[4]

(***************************************************************************)
(* Meta and its JSON form (encoding/json with the struct tags of Meta).    *)
(***************************************************************************)
CurrentFileFormatVersion == 14

ZeroMeta ==
    [Singleplayer |-> FALSE, ServerName |-> "", CustomServerName |-> "",
     Duration |-> 0, Date |-> 0, MCVersion |-> "", FileFormat |-> "",
     FileFormatVersion |-> 0, Protocol |-> 0, Generator |-> "", SelfID |-> 0,
     Players |-> <<>>]

\* json.Marshal(meta): "singleplayer" always, every other key only when its
\* value is not the zero value (omitempty)
MarshalMeta(m) ==
    LET all == [singleplayer |-> m.Singleplayer, serverName |-> m.ServerName,
                customServerName |-> m.CustomServerName, duration |-> m.Duration,
                date |-> m.Date, mcversion |-> m.MCVersion, fileFormat |-> m.FileFormat,
                fileFormatVersion |-> m.FileFormatVersion, protocol |-> m.Protocol,
                generator |-> m.Generator, selfId |-> m.SelfID, players |-> m.Players]
        keys == {"singleplayer"}
                \cup {k \in {"serverName", "customServerName", "mcversion",
                             "fileFormat", "generator"} : all[k] # ""}
                \cup {k \in {"duration", "date", "fileFormatVersion", "protocol",
                             "selfId"} : all[k] # 0}
                \cup {k \in {"players"} : Len(all[k]) # 0}
    IN  [k \in keys |-> all[k]]

\* json.Unmarshal(doc, &meta) into a zero Meta
UnmarshalMeta(doc) ==
    LET get(k, zero) == IF k \in DOMAIN doc THEN doc[k] ELSE zero
    IN  [Singleplayer |-> get("singleplayer", FALSE), ServerName |-> get("serverName", ""),
         CustomServerName |-> get("customServerName", ""), Duration |-> get("duration", 0),
         Date |-> get("date", 0), MCVersion |-> get("mcversion", ""),
         FileFormat |-> get("fileFormat", ""),
         FileFormatVersion |-> get("fileFormatVersion", 0),
         Protocol |-> get("protocol", 0), Generator |-> get("generator", ""),
         SelfID |-> get("selfId", 0), Players |-> get("players", <<>>)]

\* the mods.json document: {"requiredMods": []}
ModsDoc == [k \in {"requiredMods"} |-> <<>>]

NoDoc == [k \in {} |-> 0]

(***************************************************************************)
(* archive/zip as the Writer uses it.  An archive is the sequence of its   *)
(* entries in creation order; only the entry created last accepts writes.  *)
(* The archive writes through a bufio.Writer, whose write errors stick:    *)
(* once a write to the sink has failed (ioErr) every later operation on    *)
(* the archive fails too.  The parameter fail says whether the sink fails  *)
(* during this operation.                                                  *)
(***************************************************************************)
NewEntry(name) == [name |-> name, data |-> <<>>, isJson |-> FALSE, doc |-> NoDoc]

\* zip.Writer.Create(name): closes the entry before it and begins a new one
zipCreate(w, name, fail) ==
    IF w.ioErr \/ fail
    THEN [w |-> [w EXCEPT !.ioErr = TRUE], err |-> "io"]
    ELSE [w |-> [w EXCEPT !.entries = Append(@, NewEntry(name))], err |-> "nil"]

\* Write(p) on a sink whose failures do not stick
zipWriteNotSticky(w, h, p, fail) ==
    IF h # Len(w.entries) \/ w.zwClosed
    THEN [w |-> w, err |-> "zip: write to closed file"]
    ELSE IF fail
    THEN [w |-> w, err |-> "io"]
    ELSE [w |-> [w EXCEPT !.entries[h].data = @ \o p], err |-> "nil"]

\* Write(p) with every entry of an open archive accepting writes
zipWriteAnyEntry(w, h, p, fail) ==
    IF w.zwClosed
    THEN [w |-> w, err |-> "zip: write to closed file"]
    ELSE IF w.ioErr \/ fail
    THEN [w |-> [w EXCEPT !.ioErr = TRUE], err |-> "io"]
    ELSE [w |-> [w EXCEPT !.entries[h].data = @ \o p], err |-> "nil"]

\* Write(p) on the io.Writer that Create returned for entry number h
zipWrite(w, h, p, fail) ==
    IF h # Len(w.entries) \/ w.zwClosed
    THEN [w |-> w, err |-> "zip: write to closed file"]
    ELSE IF w.ioErr \/ fail
    THEN [w |-> [w EXCEPT !.ioErr = TRUE], err |-> "io"]
    ELSE [w |-> [w EXCEPT !.entries[h].data = @ \o p], err |-> "nil"]

\* the same Write, of marshalled JSON: the entry holds the document
zipWriteJson(w, h, doc, fail) ==
    IF h # Len(w.entries) \/ w.zwClosed
    THEN [w |-> w, err |-> "zip: write to closed file"]
    ELSE IF w.ioErr \/ fail
    THEN [w |-> [w EXCEPT !.ioErr = TRUE], err |-> "io"]
    ELSE [w |-> [w EXCEPT !.entries[h].isJson = TRUE, !.entries[h].doc = doc],
          err |-> "nil"]

\* zip.Writer.Close: closes the last entry and writes the central directory
zipClose(w, fail) ==
    IF w.ioErr \/ fail
    THEN [w |-> [w EXCEPT !.ioErr = TRUE], err |-> "io"]
    ELSE IF w.zwClosed
    THEN [w |-> w, err |-> "zip: writer closed twice"]
    ELSE [w |-> [w EXCEPT !.zwClosed = TRUE], err |-> "nil"]

(***************************************************************************)
(* mcpr.Writer.  The record w holds the struct's fields (meta, duration,   *)
(* closed, crc for crc32) and what zw, recw and file stand for: the        *)
(* archive's entries, whether the archive and the file have been closed.   *)
(***************************************************************************)
\* the entry recw writes to: the first one, "recording.tmcpr"
recw == 1

\* the wall clock of NewWriter, time.Now().UnixMilli(), in the model's units
NowUnixMilli == 1700

\* NewWriter(out, meta); hasFile says whether Create(path, meta) made it
NewWriter(meta, hasFile) ==
    LET m1 == IF meta.FileFormat = "" THEN [meta EXCEPT !.FileFormat = "MCPR"] ELSE meta
        m2 == IF m1.FileFormatVersion = 0
              THEN [m1 EXCEPT !.FileFormatVersion = CurrentFileFormatVersion] ELSE m1
        m3 == IF m2.Date = 0 THEN [m2 EXCEPT !.Date = NowUnixMilli] ELSE m2
    IN  [entries |-> <<NewEntry("recording.tmcpr")>>, zwClosed |-> FALSE,
         ioErr |-> FALSE, hasFile |-> hasFile, fileClosed |-> FALSE,
         meta |-> m3, duration |-> 0, closed |-> FALSE, crc |-> <<0, 0>>]

\* recwWrite with the checksum fed before the entry, whatever the entry answers
recwWriteCrcFirst(w, p, fail) ==
    LET r == zipWrite(w, recw, p, fail)
    IN  [w |-> [r.w EXCEPT !.crc = crcUpdate(@, p)], err |-> r.err]

\* w.recw.Write(p), recw being io.MultiWriter(rec, crc): the entry first, and
\* the checksum only when the entry took the bytes
recwWrite(w, p, fail) ==
    LET r == zipWrite(w, recw, p, fail)
    IN  IF r.err # "nil" THEN r
        ELSE [w |-> [r.w EXCEPT !.crc = crcUpdate(@, p)], err |-> "nil"]

\* packetHeader with the length of the payload alone
packetHeaderPayloadLen(ts, packetID, payload) ==
    PutUint32(ts) \o PutUint32(Len(payload))

\* the header WritePacket writes before the varint id and the payload
packetHeader(ts, packetID, payload) ==
    PutUint32(ts) \o PutUint32(Len(encodeVarInt(packetID)) + Len(payload))

\* trackDuration keeping the last timestamp, not the largest
trackDurationLast(duration, ts) == ts

\* the duration WritePacket leaves after a packet stamped ts
trackDuration(duration, ts) == IF ts > duration THEN ts ELSE duration

\* Writer.WritePacket(ts, packetID, payload); fail = 1, 2, 3: the sink fails
\* during the first, second, third Write; 0: it does not fail
WritePacket(w, ts, packetID, payload, fail) ==
    IF w.closed
    THEN [w |-> w, err |-> "mcpr: writer closed"]
    ELSE LET r1 == recwWrite(w, packetHeader(ts, packetID, payload), fail = 1)
             r2 == recwWrite(r1.w, encodeVarInt(packetID), fail = 2)
             r3 == recwWrite(r2.w, payload, fail = 3)
         IN  IF r1.err # "nil" THEN r1
             ELSE IF r2.err # "nil" THEN r2
             ELSE IF r3.err # "nil" THEN r3
             ELSE [w |-> [r3.w EXCEPT !.duration = trackDuration(@, ts)], err |-> "nil"]

\* Writer.SetSelfID(id)
SetSelfID(w, id) == [w EXCEPT !.meta.SelfID = id]

\* AddPlayer without the check for duplicates
AddPlayerNoDupCheck(w, uuid) == [w EXCEPT !.meta.Players = Append(@, uuid)]

\* Writer.AddPlayer(uuid)
AddPlayer(w, uuid) ==
    IF \E i \in 1..Len(w.meta.Players) : w.meta.Players[i] = uuid
    THEN w
    ELSE [w EXCEPT !.meta.Players = Append(@, uuid)]

\* CreateEntry without the closed check
CreateEntryNoGuard(w, name, fail) == zipCreate(w, name, fail)

\* Writer.CreateEntry(name)
CreateEntry(w, name, fail) ==
    IF w.closed
    THEN [w |-> w, err |-> "mcpr: writer closed"]
    ELSE zipCreate(w, name, fail)

\* closeMeta filling in no default
closeMetaNoDefaults(w) == [w.meta EXCEPT !.Duration = w.duration]

\* the metadata Close settles before it writes anything
closeMeta(w) ==
    LET m0 == [w.meta EXCEPT !.Duration = w.duration]
        m1 == IF m0.Generator = "" THEN [m0 EXCEPT !.Generator = "mc-replay-go"] ELSE m0
        m2 == IF m1.FileFormat = "" THEN [m1 EXCEPT !.FileFormat = "MCPR"] ELSE m1
        m3 == IF m2.FileFormatVersion = 0
              THEN [m2 EXCEPT !.FileFormatVersion = CurrentFileFormatVersion] ELSE m2
    IN  m3

\* what Close writes to the checksum entry
crc32Value(w) == Sprintf_d(w.crc)

\* w.file.Close()
fileClose(w, fail) ==
    [w |-> [w EXCEPT !.fileClosed = TRUE], err |-> IF fail THEN "io" ELSE "nil"]

\* closeSteps with mods.json created before metaData.json
closeStepsModsFirst(w, fail) ==
    LET w0 == [w EXCEPT !.meta = closeMeta(w)]
        c2 == zipCreate(w0, "mods.json", fail = 1)
        x2 == zipWriteJson(c2.w, Len(c2.w.entries), ModsDoc, fail = 2)
        c1 == zipCreate(x2.w, "metaData.json", fail = 3)
        x1 == zipWriteJson(c1.w, Len(c1.w.entries), MarshalMeta(c1.w.meta), fail = 4)
        c3 == zipCreate(x1.w, "recording.tmcpr.crc32", fail = 5)
        x3 == zipWrite(c3.w, Len(c3.w.entries), crc32Value(c3.w), fail = 6)
        z  == zipClose(x3.w, fail = 7)
        wc == [z.w EXCEPT !.closed = TRUE]
    IN  IF c2.err # "nil" THEN c2
        ELSE IF x2.err # "nil" THEN x2
        ELSE IF c1.err # "nil" THEN c1
        ELSE IF x1.err # "nil" THEN x1
        ELSE IF c3.err # "nil" THEN c3
        ELSE IF x3.err # "nil" THEN x3
        ELSE IF z.err # "nil" THEN z
        ELSE IF wc.hasFile THEN fileClose(wc, fail = 8)
        ELSE [w |-> wc, err |-> "nil"]

\* the steps of Close after the early return, in program order; fail = k: the
\* sink fails during the k-th archive or file operation; 0: it does not fail
closeSteps(w, fail) ==
    LET w0 == [w EXCEPT !.meta = closeMeta(w)]
        c1 == zipCreate(w0, "metaData.json", fail = 1)
        x1 == zipWriteJson(c1.w, Len(c1.w.entries), MarshalMeta(c1.w.meta), fail = 2)
        c2 == zipCreate(x1.w, "mods.json", fail = 3)
        x2 == zipWriteJson(c2.w, Len(c2.w.entries), ModsDoc, fail = 4)
        c3 == zipCreate(x2.w, "recording.tmcpr.crc32", fail = 5)
        x3 == zipWrite(c3.w, Len(c3.w.entries), crc32Value(c3.w), fail = 6)
        z  == zipClose(x3.w, fail = 7)
        wc == [z.w EXCEPT !.closed = TRUE]
    IN  IF c1.err # "nil" THEN c1
        ELSE IF x1.err # "nil" THEN x1
        ELSE IF c2.err # "nil" THEN c2
        ELSE IF x2.err # "nil" THEN x2
        ELSE IF c3.err # "nil" THEN c3
        ELSE IF x3.err # "nil" THEN x3
        ELSE IF z.err # "nil" THEN z
        ELSE IF wc.hasFile THEN fileClose(wc, fail = 8)
        ELSE [w |-> wc, err |-> "nil"]

\* Close without the early return of a closed Writer
CloseNoGuard(w, fail) == closeSteps(w, fail)

\* Writer.Close()
Close(w, fail) ==
    IF w.closed THEN [w |-> w, err |-> "nil"] ELSE closeSteps(w, fail)

(***************************************************************************)
(* ValidateFile.  A file is [exists, size0, zip, mdErr, entries]: whether   *)
(* the path exists, whether it holds no byte, whether it reads as an       *)
(* archive, what opening and reading the metadata entry reports ("nil",    *)
(* "open" or "read"), and the entries of the archive.                      *)
(***************************************************************************)
\* fileMap[name]: the entry of that name created last (0: none)
fileMap(entries, name) ==
    LET is == {i \in 1..Len(entries) : entries[i].name = name}
    IN  IF is = {} THEN 0 ELSE CHOOSE i \in is : \A j \in is : j <= i

\* ValidateFile with an out-of-range format version made an error
ValidateFileStrict(f) ==
    LET rec  == fileMap(f.entries, "recording.tmcpr")
        md   == fileMap(f.entries, "metaData.json")
        meta == UnmarshalMeta(f.entries[md].doc)
        recw0 == IF f.entries[rec].data = <<>> THEN {"recording.tmcpr is empty"} ELSE {}
        warn == recw0
                \cup (IF meta.FileFormat # "MCPR" THEN {"unexpected file format"} ELSE {})
                \cup (IF meta.FileFormatVersion < 1 \/ meta.FileFormatVersion > 15
                      THEN {"unusual file format version"} ELSE {})
                \cup (IF meta.Protocol = 0 THEN {"protocol version is 0"} ELSE {})
                \cup (IF meta.Duration = 0 THEN {"replay duration is 0 ms"} ELSE {})
                \cup (IF fileMap(f.entries, "mods.json") = 0
                      THEN {"missing optional file: mods.json"} ELSE {})
                \cup (IF fileMap(f.entries, "recording.tmcpr.crc32") = 0
                      THEN {"missing cache file: recording.tmcpr.crc32"} ELSE {})
    IN  IF ~f.exists THEN [err |-> "replay file not found", warnings |-> {}]
        ELSE IF f.size0 THEN [err |-> "replay file is empty (0 bytes)", warnings |-> {}]
        ELSE IF ~f.zip THEN [err |-> "not a valid zip file", warnings |-> {}]
        ELSE IF rec = 0
        THEN [err |-> "missing required file: recording.tmcpr", warnings |-> {}]
        ELSE IF md = 0
        THEN [err |-> "missing required file: metaData.json",
              warnings |-> recw0]
        ELSE IF f.mdErr = "open"
        THEN [err |-> "failed to open metaData.json",
              warnings |-> recw0]
        ELSE IF f.mdErr = "read"
        THEN [err |-> "failed to read metaData.json",
              warnings |-> recw0]
        ELSE IF ~f.entries[md].isJson
        THEN [err |-> "failed to parse metaData.json",
              warnings |-> recw0]
        ELSE IF meta.FileFormatVersion < 1 \/ meta.FileFormatVersion > 15
        THEN [err |-> "unusual file format version", warnings |-> warn]
        ELSE [err |-> "nil", warnings |-> warn]

\* ValidateFile(path) on the file f at that path
ValidateFile(f) ==
    LET rec  == fileMap(f.entries, "recording.tmcpr")
        md   == fileMap(f.entries, "metaData.json")
        meta == UnmarshalMeta(f.entries[md].doc)
        recw0 == IF f.entries[rec].data = <<>> THEN {"recording.tmcpr is empty"} ELSE {}
        warn == recw0
                \cup (IF meta.FileFormat # "MCPR" THEN {"unexpected file format"} ELSE {})
                \cup (IF meta.FileFormatVersion < 1 \/ meta.FileFormatVersion > 15
                      THEN {"unusual file format version"} ELSE {})
                \cup (IF meta.Protocol = 0 THEN {"protocol version is 0"} ELSE {})
                \cup (IF meta.Duration = 0 THEN {"replay duration is 0 ms"} ELSE {})
                \cup (IF fileMap(f.entries, "mods.json") = 0
                      THEN {"missing optional file: mods.json"} ELSE {})
                \cup (IF fileMap(f.entries, "recording.tmcpr.crc32") = 0
                      THEN {"missing cache file: recording.tmcpr.crc32"} ELSE {})
    IN  IF ~f.exists THEN [err |-> "replay file not found", warnings |-> {}]
        ELSE IF f.size0 THEN [err |-> "replay file is empty (0 bytes)", warnings |-> {}]
        ELSE IF ~f.zip THEN [err |-> "not a valid zip file", warnings |-> {}]
        ELSE IF rec = 0
        THEN [err |-> "missing required file: recording.tmcpr", warnings |-> {}]
        ELSE IF md = 0
        THEN [err |-> "missing required file: metaData.json",
              warnings |-> recw0]
        ELSE IF f.mdErr = "open"
        THEN [err |-> "failed to open metaData.json",
              warnings |-> recw0]
        ELSE IF f.mdErr = "read"
        THEN [err |-> "failed to read metaData.json",
              warnings |-> recw0]
        ELSE IF ~f.entries[md].isJson
        THEN [err |-> "failed to parse metaData.json",
              warnings |-> recw0]
        ELSE [err |-> "nil", warnings |-> warn]

\* the file behind a Writer that Create(path, meta) made: the archive reads
\* as one once its central directory is written; until the Writer's first
\* flush the file holds nothing
fileOf(w) ==
    [exists |-> w.hasFile,
     size0 |-> ~w.zwClosed /\ ~w.ioErr /\ Len(w.entries) = 1 /\ w.entries[1].data = <<>>,
     zip |-> w.zwClosed, mdErr |-> "nil", entries |-> w.entries]


(***************************************************************************)
(* compress/zlib as parseAndRecord uses it.  The model inflates streams of *)
(* stored (uncompressed) deflate blocks; the inputs of the model hold no   *)
(* other kind of block, and a block of another kind reads as corrupt.      *)
(***************************************************************************)
\* hash/adler32 of p, as <<b, a>>: the two 16-bit sums
RECURSIVE adlerLoop(_, _, _)
adlerLoop(a, b, p) ==
    IF p = <<>> THEN <<b, a>>
    ELSE LET a2 == (a + Head(p)) % 65521
             b2 == (b + a2) % 65521
         IN  IF a2 >= 0 /\ b2 >= 0 THEN adlerLoop(a2, b2, Tail(p)) ELSE <<b2, a2>>

adler32(p) == adlerLoop(1, 0, p)

\* the stored blocks of a deflate stream d: [err, out, rest]
RECURSIVE inflateStored(_, _)
inflateStored(d, out) ==
    IF Len(d) < 5 THEN [err |-> "unexpected EOF", out |-> out, rest |-> <<>>]
    ELSE LET final == d[1] % 2
             btype == (d[1] \div 2) % 4
             len   == d[2] + (256 * d[3])
             nlen  == d[4] + (256 * d[5])
         IN  IF btype # 0 \/ len + nlen # 65535
             THEN [err |-> "flate: corrupt input", out |-> out, rest |-> <<>>]
             ELSE IF Len(d) < 5 + len
             THEN [err |-> "unexpected EOF", out |-> out, rest |-> <<>>]
             ELSE IF final = 1
             THEN [err |-> "nil", out |-> out \o SubSeq(d, 6, 5 + len),
                   rest |-> SubSeq(d, 6 + len, Len(d))]
             ELSE inflateStored(SubSeq(d, 6 + len, Len(d)), out \o SubSeq(d, 6, 5 + len))

\* zlib.NewReader(zr) and io.Copy(&buf, z): the header, the blocks, the
\* Adler-32 trailer; err is "nil" when both calls return nil
zlibInflate(z) ==
    IF Len(z) < 2 THEN [err |-> "unexpected EOF", out |-> <<>>]
    ELSE IF z[1] % 16 # 8 \/ z[1] \div 16 > 7 \/ ((z[1] * 256) + z[2]) % 31 # 0
    THEN [err |-> "zlib: invalid header", out |-> <<>>]
    ELSE IF (z[2] \div 32) % 2 = 1
    THEN [err |-> "zlib: invalid dictionary", out |-> <<>>]
    ELSE LET r   == inflateStored(SubSeq(z, 3, Len(z)), <<>>)
             sum == adler32(r.out)
         IN  IF r.err # "nil" THEN [err |-> r.err, out |-> <<>>]
             ELSE IF Len(r.rest) < 4 THEN [err |-> "unexpected EOF", out |-> <<>>]
             ELSE IF <<(r.rest[1] * 256) + r.rest[2], (r.rest[3] * 256) + r.rest[4]>> # sum
             THEN [err |-> "zlib: invalid checksum", out |-> <<>>]
             ELSE [err |-> "nil", out |-> r.out]

(***************************************************************************)
(* parseAndRecord, one turn of its loop.                                   *)
(***************************************************************************)
\* the 8 MiB safety cap on a frame
maxFrame == 8388608

\* the frame length check without the safety cap
invalidFrameLengthNoCap(len) == len.hi = 0 /\ len.lo <= 0

\* "if frameLen <= 0 || frameLen > maxFrame" on the int64 readVarInt returned
invalidFrameLength(len) ==
    len.hi > 0 \/ len.lo <= 0 \/ len.lo > maxFrame

\* singleVarInt(b): whether b is exactly one VarInt
singleVarInt(b) ==
    LET r == readVarInt(b)
    IN  r.err = "nil" /\ r.n = Len(b)

\* the decoding without the fallback: a failed inflate leaves no data
decodeFrameNoFallback(frame, assumeNoCompress, compressionEnabled) ==
    IF ~assumeNoCompress /\ compressionEnabled
    THEN LET size == readVarInt(frame)
             zr   == SubSeq(frame, size.n + 1, Len(frame))
             z    == zlibInflate(zr)
         IN  IF size.err # "nil" THEN frame
             ELSE IF size.hi > 0 \/ size.lo > 0
             THEN z.out
             ELSE zr
    ELSE frame

\* "Decode for recording": the bytes the packet id and payload are read from
decodeFrame(frame, assumeNoCompress, compressionEnabled) ==
    IF ~assumeNoCompress /\ compressionEnabled
    THEN LET size == readVarInt(frame)
             zr   == SubSeq(frame, size.n + 1, Len(frame))
             z    == zlibInflate(zr)
         IN  IF size.err # "nil" THEN frame
             ELSE IF size.hi > 0 \/ size.lo > 0
             THEN IF z.err = "nil" THEN z.out ELSE frame
             ELSE zr
    ELSE frame

\* the heuristic without the -guess-compress flag
detectsCompressionUnasked(payload, cfg, compressionEnabled) ==
    /\ ~compressionEnabled /\ ~cfg.assumeNoCompress
    /\ singleVarInt(payload)

\* whether the heuristic turns compression on after a packet with this payload
detectsCompression(payload, cfg, compressionEnabled) ==
    /\ cfg.guessCompress /\ ~compressionEnabled /\ ~cfg.assumeNoCompress
    /\ singleVarInt(payload)

\* compressionEnabled := false; if forceThreshold >= 0 { compressionEnabled = true }
initialCompression(cfg) == cfg.forceThreshold >= 0

\* the compression state overwritten with the outcome of the heuristic
compressionAfterOverwrite(payload, cfg, compressionEnabled) ==
    detectsCompression(payload, cfg, compressionEnabled)

\* compressionEnabled after the heuristic: set to true, or left as it was
compressionAfter(payload, cfg, compressionEnabled) ==
    compressionEnabled \/ detectsCompression(payload, cfg, compressionEnabled)

\* One turn of the loop on the bytes buf the reader holds; eof: the reader
\* has nothing more to give.  kind is "more" (the turn blocks in a read),
\* "error" (parseAndRecord returns err) or "packet": the packet to write,
\* the bytes left after the frame and the compression state after it
parseTurn(buf, cfg, compressionEnabled, eof) ==
    LET len      == readVarInt(buf)
        frameLen == len.lo
        frame    == SubSeq(buf, len.n + 1, len.n + frameLen)
        data     == decodeFrame(frame, cfg.assumeNoCompress, compressionEnabled)
        pid      == readVarInt(data)
        payload  == SubSeq(data, pid.n + 1, Len(data))
        stop(e)  == [kind |-> "error", err |-> e, id |-> 0, payload |-> <<>>,
                     rest |-> buf, compressionEnabled |-> compressionEnabled]
        more     == [kind |-> "more", err |-> "nil", id |-> 0, payload |-> <<>>,
                     rest |-> buf, compressionEnabled |-> compressionEnabled]
    IN  IF len.err = "EOF" THEN (IF eof THEN stop("EOF") ELSE more)
        ELSE IF len.err # "nil" THEN stop(len.err)
        ELSE IF invalidFrameLength(len) THEN stop("invalid frame length")
        ELSE IF Len(buf) < len.n + frameLen
        THEN (IF ~eof THEN more
              ELSE IF Len(buf) = len.n THEN stop("EOF") ELSE stop("unexpected EOF"))
        ELSE IF pid.err # "nil" THEN stop(pid.err)
        ELSE [kind |-> "packet", err |-> "nil", id |-> toInt32(pid), payload |-> payload,
              rest |-> SubSeq(buf, len.n + frameLen + 1, Len(buf)),
              compressionEnabled |-> compressionAfter(payload, cfg, compressionEnabled)]


(***************************************************************************)
(* package recorder: the Recorder facade.  Every method runs with r.mu     *)
(* held from its first statement to its return.  The methods are given as  *)
(* operators on the Recorder's closed flag and its Writer; called names    *)
(* the Writer method the call reached ("" when it reached none).           *)
(***************************************************************************)
\* a method returning before it touches the Writer
recorderNoOp(closed, w) == [closed |-> closed, w |-> w, err |-> "nil", called |-> ""]

\* RecordAt without the closed check
RecorderRecordAtNoGuard(closed, w, ts, id, payload, fail) ==
    LET r == WritePacket(w, ts, id, payload, fail)
    IN  [closed |-> closed, w |-> r.w, err |-> r.err, called |-> "WritePacket"]

\* Recorder.RecordAt(ts, id, payload)
RecorderRecordAt(closed, w, ts, id, payload, fail) ==
    IF closed THEN recorderNoOp(closed, w)
    ELSE LET r == WritePacket(w, ts, id, payload, fail)
         IN  [closed |-> closed, w |-> r.w, err |-> r.err, called |-> "WritePacket"]

\* Recorder.RecordNow(id, payload); elapsed: time.Since(r.start) in milliseconds
RecorderRecordNow(closed, w, elapsed, id, payload, fail) ==
    IF closed THEN recorderNoOp(closed, w)
    ELSE LET r == WritePacket(w, elapsed, id, payload, fail)
         IN  [closed |-> closed, w |-> r.w, err |-> r.err, called |-> "WritePacket"]

\* Recorder.Close without the closed check
RecorderCloseNoGuard(closed, w, fail) ==
    LET r == Close(w, fail)
    IN  [closed |-> TRUE, w |-> r.w, err |-> r.err, called |-> "Close"]

\* Recorder.Close()
RecorderClose(closed, w, fail) ==
    IF closed THEN recorderNoOp(closed, w)
    ELSE LET r == Close(w, fail)
         IN  [closed |-> TRUE, w |-> r.w, err |-> r.err, called |-> "Close"]

\* Recorder.SetSelfID without the closed check
RecorderSetSelfIDNoGuard(closed, w, id) ==
    [closed |-> closed, w |-> SetSelfID(w, id), err |-> "nil", called |-> "SetSelfID"]

\* Recorder.SetSelfID(id)
RecorderSetSelfID(closed, w, id) ==
    IF closed THEN recorderNoOp(closed, w)
    ELSE [closed |-> closed, w |-> SetSelfID(w, id), err |-> "nil", called |-> "SetSelfID"]

\* Recorder.AddPlayer(uuid)
RecorderAddPlayer(closed, w, uuid) ==
    IF closed THEN recorderNoOp(closed, w)
    ELSE [closed |-> closed, w |-> AddPlayer(w, uuid), err |-> "nil", called |-> "AddPlayer"]


(***************************************************************************)
(* State.                                                                  *)
(***************************************************************************)
VARIABLES
    w,      \* the mcpr.Writer and the archive it writes
    hist    \* what the Writer's callers have done: written, the packets of the
            \* WritePacket calls that returned nil, in call order; op and ret, the
            \* last call made and the value it returned; nPackets, the WritePacket
            \* calls made; nCalls, the calls made of the other methods; nClose, the
            \* Close calls among them; nValidate, the ValidateFile calls made on
            \* the Writer's file; auxNames, the names CreateEntry created; crcSeen,
            \* the checksum as the last WritePacket call left it

writerVars == <<w, hist>>

VARIABLES
    cfg,    \* the proxy's flags: assumeNoCompress, guessCompress, forceThreshold
    net,    \* the two connections: stream, the bytes the server sends; srcPos,
            \* how many of them upstreamConn.Read has returned; serverEOF and
            \* clientEOF, the peer has closed its sending side; upClosed and
            \* connClosed, the proxy has closed the connection; ctxDone, the
            \* shutdown signal has fired; delivered, the bytes written to conn
    fwd,    \* the server->client goroutine: pc, its place in forwardWithTee and
            \* after it; buf and rerr, what the last Read returned; err, what
            \* forwardWithTee returned
    pipe,   \* the io.Pipe: pending, the bytes of the Write in progress that no
            \* Read has taken yet; writing, a Write is in progress; wclosed,
            \* pw.Close() was called; mirrored, every byte handed to a Read
    par,    \* the parser goroutine: pc, buf (the bytes read from the pipe and
            \* not yet parsed), compressionEnabled, err (what parseAndRecord
            \* returned)
    now,    \* time.Since(start), in milliseconds
    procs   \* main ("wait", "done") and the client->server goroutine ("copy",
            \* "done")

proxyVars == <<cfg, net, fwd, pipe, par, now, procs>>

VARIABLE
    rcd     \* the Recorder facade and its callers: closed, the Recorder's flag;
            \* mu, the goroutine holding r.mu (0: none); pc, call and ret, per
            \* goroutine, its place in a call, the call and what it returned;
            \* nCalls, the calls started; nDone, the method bodies run; last,
            \* the body run last

\* a caller of the VarInt codec: the value v, its encoding enc, the result
\* dec of reading the encoding back, and how far the caller is
VARIABLE
    vi

\* forwardWithTee on any reader and writers: pc, its place; hasTee, whether
\* tee is non-nil; nReads and sent, the Read calls made and the bytes they
\* returned (the k-th byte read is k); buf and rerr, what the last Read
\* returned; werr and terr, what the last dst.Write and tee.Write returned;
\* teeErrs, the tee.Write calls that failed; delivered and mirrored, the bytes
\* dst and tee have taken; err, what forwardWithTee returned; log, what the
\* caller logged
VARIABLE
    ft

\* the callers of ValidateFile and ValidateFileQuiet on one file, and the log
\* package: file, the file at the path; direct, the place of the caller of
\* ValidateFile; pc and old, per caller of ValidateFileQuiet, its place and
\* its oldOutput; output, the log package's writer; res, what the last
\* ValidateFile returned, with the warnings it logged; logged, the runs of
\* ValidateFile whose lines reached os.Stderr
VARIABLE
    vq

vars == <<w, hist, cfg, net, fwd, pipe, par, now, procs, rcd, vi, ft, vq>>

\* no forwardWithTee call
NoForward ==
    [pc |-> "none", hasTee |-> FALSE, nReads |-> 0, sent |-> 0, buf |-> <<>>,
     rerr |-> "nil", werr |-> "nil", terr |-> "nil", teeErrs |-> 0,
     delivered |-> <<>>, mirrored |-> <<>>, err |-> "nil", log |-> <<>>]

\* no ValidateFileQuiet caller
NoQuiet ==
    [file |-> [exists |-> FALSE, size0 |-> FALSE, zip |-> FALSE, mdErr |-> "nil",
               entries |-> <<>>],
     direct |-> "none", pc |-> <<>>, old |-> <<>>, output |-> "os.Stderr",
     res |-> [err |-> "", warnings |-> {}], logged |-> 0]

\* no VarInt caller
NoVarInt ==
    [pc |-> "none", v |-> 0, enc |-> <<>>, src |-> <<>>,
     dec |-> [err |-> "nil", lo |-> 0, hi |-> 0, n |-> 0]]

\* the proxy's state in a program that runs no proxy
NoProxy ==
    /\ cfg = [assumeNoCompress |-> FALSE, guessCompress |-> TRUE, forceThreshold |-> -1]
    /\ net = [stream |-> <<>>, srcPos |-> 0, serverEOF |-> FALSE, clientEOF |-> FALSE,
              upClosed |-> FALSE, connClosed |-> FALSE, ctxDone |-> FALSE,
              delivered |-> <<>>]
    /\ fwd = [pc |-> "done", buf |-> <<>>, rerr |-> "nil", err |-> "nil"]
    /\ pipe = [pending |-> <<>>, writing |-> FALSE, wclosed |-> FALSE, mirrored |-> <<>>]
    /\ par = [pc |-> "ret", buf |-> <<>>, compressionEnabled |-> FALSE, err |-> "nil"]
    /\ now = 0
    /\ procs = [main |-> "done", c2s |-> "done"]

\* the goroutines that call one Recorder
NumCallers == 2
Callers == 1..NumCallers

\* the arguments of a call that has none
NoPacket == [ts |-> 0, id |-> 0, payload |-> <<>>]
NoCall == [op |-> "", pk |-> NoPacket, uuid |-> "", id |-> 0]

\* recorder.New(w): not closed, the mutex free, no call in progress
IdleRecorder ==
    [closed |-> FALSE, mu |-> 0,
     pc |-> [t \in Callers |-> "idle"],
     call |-> [t \in Callers |-> NoCall],
     ret |-> [t \in Callers |-> "nil"],
     nCalls |-> 0, nDone |-> 0,
     last |-> [op |-> "", ret |-> "nil", wasClosed |-> FALSE]]

(***************************************************************************)
(* A caller of the Writer: cmd/mcpr-create and any other single-threaded   *)
(* user of the package.                                                    *)
(***************************************************************************)
\* the packets a caller writes (timestamp, packet id, payload)
PacketInputs ==
    {[ts |-> 0, id |-> 38, payload |-> <<10, 255, 238>>],
     [ts |-> 1500, id |-> 58, payload |-> <<222, 173>>],
     [ts |-> 70000, id |-> -1, payload |-> <<>>]}

\* the Meta values a caller opens a Writer with
MetaInputs ==
    {[ZeroMeta EXCEPT !.Protocol = 754, !.Generator = "mc-replay-go/proxyrec",
                      !.ServerName = "127.0.0.1:25565"],
     [ZeroMeta EXCEPT !.FileFormat = "XYZ", !.FileFormatVersion = 99, !.Date = 5,
                      !.Duration = 3000, !.Singleplayer = TRUE,
                      !.Players = <<"uuid-b">>]}

SelfIDInputs == {7}
PlayerInputs == {"uuid-a", "uuid-b"}
EntryNameInputs == {"assets.bin", "metaData.json"}

NoHist ==
    [written |-> <<>>, op |-> "NewWriter", ret |-> "nil", nPackets |-> 0, nCalls |-> 0,
     nClose |-> 0, nValidate |-> 0, auxNames |-> <<>>,
     crcSeen |-> <<0, 0>>, players |-> <<>>]

\* the record of a call of a method other than WritePacket
called(h, op, err) == [h EXCEPT !.op = op, !.ret = err, !.nCalls = @ + 1]

InitWriter ==
    /\ \E meta \in MetaInputs, hasFile \in BOOLEAN : w = NewWriter(meta, hasFile)
    /\ hist = [NoHist EXCEPT !.players = w.meta.Players]
    /\ NoProxy
    /\ rcd = IdleRecorder
    /\ vi = NoVarInt
    /\ ft = NoForward
    /\ vq = NoQuiet

DoWritePacket ==
    /\ hist.nPackets + hist.nCalls < MaxOps
    /\ \E pk \in PacketInputs, fail \in 0..3 :
          LET r == WritePacket(w, pk.ts, pk.id, pk.payload, fail)
          IN  /\ w' = r.w
              /\ hist' = [hist EXCEPT !.op = "WritePacket", !.ret = r.err,
                              !.nPackets = @ + 1, !.crcSeen = r.w.crc,
                              !.written = IF r.err = "nil" THEN Append(@, pk) ELSE @]
    /\ UNCHANGED <<proxyVars, rcd, vi, ft, vq>>

DoSetSelfID ==
    /\ hist.nPackets + hist.nCalls < MaxOps
    /\ \E id \in SelfIDInputs : w' = SetSelfID(w, id)
    /\ hist' = called(hist, "SetSelfID", "nil")
    /\ UNCHANGED <<proxyVars, rcd, vi, ft, vq>>

DoAddPlayer ==
    /\ hist.nPackets + hist.nCalls < MaxOps
    /\ \E uuid \in PlayerInputs :
          /\ w' = AddPlayer(w, uuid)
          /\ hist' = [called(hist, "AddPlayer", "nil") EXCEPT !.players = Append(@, uuid)]
    /\ UNCHANGED <<proxyVars, rcd, vi, ft, vq>>

DoCreateEntry ==
    /\ hist.nPackets + hist.nCalls < MaxOps
    /\ \E name \in EntryNameInputs, fail \in BOOLEAN :
          LET r == CreateEntry(w, name, fail)
          IN  /\ w' = r.w
              /\ hist' = [called(hist, "CreateEntry", r.err) EXCEPT
                              !.auxNames = IF r.err = "nil" THEN Append(@, name) ELSE @]
    /\ UNCHANGED <<proxyVars, rcd, vi, ft, vq>>

DoClose ==
    /\ hist.nPackets + hist.nCalls < MaxOps
    /\ \E fail \in 0..8 :
          LET r == Close(w, fail)
          IN  /\ w' = r.w
              /\ hist' = [called(hist, "Close", r.err) EXCEPT !.nClose = @ + 1]
    /\ UNCHANGED <<proxyVars, rcd, vi, ft, vq>>

\* cmd/mcpr-validate, or any caller of ValidateFile, on the Writer's file
DoValidateFile ==
    /\ hist.nPackets + hist.nCalls < MaxOps
    /\ w.hasFile
    /\ hist' = [called(hist, "ValidateFile", ValidateFile(fileOf(w)).err) EXCEPT
                    !.nValidate = @ + 1]
    /\ UNCHANGED <<w, proxyVars, rcd, vi, ft, vq>>

NextWriter ==
    \/ DoValidateFile
    \/ DoWritePacket
    \/ DoSetSelfID
    \/ DoAddPlayer
    \/ DoCreateEntry
    \/ DoClose

\* a single-threaded caller driving one Writer
SpecWriter == InitWriter /\ [][NextWriter]_vars

(***************************************************************************)
(* examples/proxyrec: one client connection proxied to the upstream        *)
(* server.  The server->client bytes are forwarded by forwardWithTee and   *)
(* mirrored through an io.Pipe to parseAndRecord, which records them with  *)
(* a Writer; main closes the Writer when both directions have ended.       *)
(***************************************************************************)
\* the most bytes one upstreamConn.Read returns (the code's buffer: 32 KiB)
ChunkMax == 2
\* the clock stops advancing here
MaxClock == 1

\* what the server sends: two frames; a frame, a frame of length 0 and one
\* more byte; a packet whose payload is one VarInt, then a frame in the
\* compressed format
TwoFrames == <<2, 38, 255, 1, 58>>
BadFrame == <<1, 38, 0, 5>>
SetCompression == <<2, 3, 5, 2, 0, 38>>

\* the flags: the defaults, -no-compress, -compression-threshold 0
DefaultFlags == [assumeNoCompress |-> FALSE, guessCompress |-> TRUE, forceThreshold |-> -1]
NoCompressFlags == [assumeNoCompress |-> TRUE, guessCompress |-> TRUE, forceThreshold |-> -1]
ForcedFlags == [assumeNoCompress |-> FALSE, guessCompress |-> FALSE, forceThreshold |-> 0]

\* -guess-compress=false
NoGuessFlags == [assumeNoCompress |-> FALSE, guessCompress |-> FALSE, forceThreshold |-> -1]

\* a packet, then a frame length of 8 MiB + 1
HugeFrame == <<1, 38, 129, 128, 128, 4>>

\* the runs of the proxy: the flags it is started with, the bytes the server sends
ProxyInputs ==
    {<<DefaultFlags, TwoFrames>>, <<DefaultFlags, BadFrame>>,
     <<DefaultFlags, SetCompression>>, <<NoCompressFlags, SetCompression>>,
     <<ForcedFlags, SetCompression>>, <<NoGuessFlags, SetCompression>>,
     <<DefaultFlags, HugeFrame>>}

\* how the output file behaves in a call: it takes every write, or its
\* second write fails
SinkFailInputs == {0, 2}

\* main up to wg.Wait(): both connections open, the Writer created, the three
\* goroutines started
InitProxy ==
    /\ w = NewWriter([ZeroMeta EXCEPT !.Protocol = 754,
                                      !.Generator = "mc-replay-go/proxyrec",
                                      !.ServerName = "127.0.0.1:25565"], TRUE)
    /\ hist = NoHist
    /\ \E in \in ProxyInputs :
          /\ cfg = in[1]
          /\ net = [stream |-> in[2], srcPos |-> 0, serverEOF |-> FALSE,
                    clientEOF |-> FALSE, upClosed |-> FALSE, connClosed |-> FALSE,
                    ctxDone |-> FALSE, delivered |-> <<>>]
    /\ fwd = [pc |-> "read", buf |-> <<>>, rerr |-> "nil", err |-> "nil"]
    /\ pipe = [pending |-> <<>>, writing |-> FALSE, wclosed |-> FALSE, mirrored |-> <<>>]
    /\ par = [pc |-> "run", buf |-> <<>>, compressionEnabled |-> initialCompression(cfg),
              err |-> "nil"]
    /\ now = 0
    /\ procs = [main |-> "wait", c2s |-> "copy"]
    /\ rcd = IdleRecorder
    /\ vi = NoVarInt
    /\ ft = NoForward
    /\ vq = NoQuiet

\* forwardWithTee: n, rerr := src.Read(buf).  A closed upstreamConn fails the
\* read; otherwise the read returns some of the bytes the server has sent,
\* or io.EOF once the server has closed and nothing is left; with n = 0 the
\* loop goes straight to "if rerr != nil { return rerr }"
FwdRead ==
    /\ fwd.pc = "read"
    /\ LET left == Len(net.stream) - net.srcPos
       IN  \/ /\ net.upClosed
              /\ fwd' = [fwd EXCEPT !.pc = "closePipe", !.buf = <<>>,
                                    !.rerr = "use of closed network connection",
                                    !.err = "use of closed network connection"]
              /\ UNCHANGED net
           \/ /\ ~net.upClosed /\ left > 0
              /\ \E n \in 1..ChunkMax :
                    /\ n <= left
                    /\ fwd' = [fwd EXCEPT !.pc = "write", !.rerr = "nil",
                                          !.buf = SubSeq(net.stream, net.srcPos + 1,
                                                         net.srcPos + n)]
                    /\ net' = [net EXCEPT !.srcPos = @ + n]
           \/ /\ ~net.upClosed /\ left = 0 /\ net.serverEOF
              /\ fwd' = [fwd EXCEPT !.pc = "closePipe", !.buf = <<>>,
                                    !.rerr = "EOF", !.err = "EOF"]
              /\ UNCHANGED net
    /\ UNCHANGED <<w, hist, cfg, pipe, par, now, procs, rcd, vi, ft, vq>>

\* dst.Write with a failed write followed by the mirror write all the same
FwdDstWriteMirrorsAnyway ==
    /\ fwd.pc = "write"
    /\ \/ /\ net.connClosed \/ net.clientEOF
          /\ fwd' = [fwd EXCEPT !.pc = "tee"]
          /\ UNCHANGED net
       \/ /\ ~net.connClosed
          /\ net' = [net EXCEPT !.delivered = @ \o fwd.buf]
          /\ fwd' = [fwd EXCEPT !.pc = "tee"]
    /\ UNCHANGED <<w, hist, cfg, pipe, par, now, procs, rcd, vi, ft, vq>>

\* forwardWithTee: dst.Write(buf[:n]); a write error is returned at once.
\* The write fails on a conn the proxy has closed and may fail on one the
\* client has closed
FwdDstWrite ==
    /\ fwd.pc = "write"
    /\ \/ /\ net.connClosed \/ net.clientEOF
          /\ fwd' = [fwd EXCEPT !.pc = "closePipe", !.err = "write error"]
          /\ UNCHANGED net
       \/ /\ ~net.connClosed
          /\ net' = [net EXCEPT !.delivered = @ \o fwd.buf]
          /\ fwd' = [fwd EXCEPT !.pc = "tee"]
    /\ UNCHANGED <<w, hist, cfg, pipe, par, now, procs, rcd, vi, ft, vq>>

\* forwardWithTee: tee.Write(buf[:n]) starts.  tee is the write end of an
\* io.Pipe: the bytes are offered to the reader and the call does not return
\* before the reader has taken them all
FwdTeeWrite ==
    /\ fwd.pc = "tee"
    /\ pipe' = [pipe EXCEPT !.pending = fwd.buf, !.writing = TRUE]
    /\ fwd' = [fwd EXCEPT !.pc = "teeWait"]
    /\ UNCHANGED <<w, hist, cfg, net, par, now, procs, rcd, vi, ft, vq>>

\* forwardWithTee: tee.Write returns, the reader having taken every byte;
\* then "if rerr != nil { return rerr }" and the next turn of the loop
FwdTeeReturn ==
    /\ fwd.pc = "teeWait"
    /\ pipe.pending = <<>>
    /\ pipe' = [pipe EXCEPT !.writing = FALSE]
    /\ fwd' = IF fwd.rerr = "nil" THEN [fwd EXCEPT !.pc = "read"]
              ELSE [fwd EXCEPT !.pc = "closePipe", !.err = fwd.rerr]
    /\ UNCHANGED <<w, hist, cfg, net, par, now, procs, rcd, vi, ft, vq>>

\* the server->client goroutine after forwardWithTee: pw.Close()
S2CClosePipe ==
    /\ fwd.pc = "closePipe"
    /\ pipe' = [pipe EXCEPT !.wclosed = TRUE]
    /\ fwd' = [fwd EXCEPT !.pc = "parseWait"]
    /\ UNCHANGED <<w, hist, cfg, net, par, now, procs, rcd, vi, ft, vq>>

\* the server->client goroutine: parseWG.Wait() returns once parseAndRecord
\* has; the deferred conn.CloseWrite() and wg.Done() follow
S2CParseWait ==
    /\ fwd.pc = "parseWait"
    /\ par.pc = "ret"
    /\ fwd' = [fwd EXCEPT !.pc = "done"]
    /\ UNCHANGED <<w, hist, cfg, net, pipe, par, now, procs, rcd, vi, ft, vq>>

\* parseAndRecord blocked in a read (of the frame length or of the frame):
\* pr.Read hands over pending bytes of the Write in progress, as many as the
\* reader asked for
ParserRead ==
    /\ par.pc = "run"
    /\ parseTurn(par.buf, cfg, par.compressionEnabled, FALSE).kind = "more"
    /\ pipe.pending # <<>>
    /\ \E k \in 1..ChunkMax :
          /\ k <= Len(pipe.pending)
          /\ par' = [par EXCEPT !.buf = @ \o SubSeq(pipe.pending, 1, k)]
          /\ pipe' = [pipe EXCEPT !.pending = SubSeq(@, k + 1, Len(@)),
                                  !.mirrored = @ \o SubSeq(pipe.pending, 1, k)]
    /\ UNCHANGED <<w, hist, cfg, net, fwd, now, procs, rcd, vi, ft, vq>>

\* parseAndRecord blocked in a read when the write end is closed: the read
\* returns io.EOF (io.ErrUnexpectedEOF inside a frame) and the function
\* returns it
ParserEOF ==
    /\ par.pc = "run"
    /\ parseTurn(par.buf, cfg, par.compressionEnabled, FALSE).kind = "more"
    /\ pipe.pending = <<>> /\ pipe.wclosed
    /\ par' = [par EXCEPT !.pc = "ret",
                          !.err = parseTurn(par.buf, cfg, par.compressionEnabled, TRUE).err]
    /\ UNCHANGED <<w, hist, cfg, net, fwd, pipe, now, procs, rcd, vi, ft, vq>>

\* parseAndRecord returns an error of the framing: an invalid frame length,
\* a VarInt that is too long, a frame without a packet id
ParserFail ==
    /\ par.pc = "run"
    /\ LET t == parseTurn(par.buf, cfg, par.compressionEnabled, FALSE)
       IN  /\ t.kind = "error"
           /\ par' = [par EXCEPT !.pc = "ret", !.err = t.err]
    /\ UNCHANGED <<w, hist, cfg, net, fwd, pipe, now, procs, rcd, vi, ft, vq>>

\* one turn of parseAndRecord's loop on a whole frame: decode it, update the
\* compression state, w.WritePacket(ts, int32(pid), payload) with ts the
\* milliseconds since start; a WritePacket error is returned
ParserFrame ==
    /\ par.pc = "run"
    /\ LET t == parseTurn(par.buf, cfg, par.compressionEnabled, FALSE)
       IN  /\ t.kind = "packet"
           /\ \E fail \in SinkFailInputs :
                 LET r  == WritePacket(w, now, t.id, t.payload, fail)
                     pk == [ts |-> now, id |-> t.id, payload |-> t.payload]
                 IN  /\ w' = r.w
                     /\ hist' = [hist EXCEPT !.op = "WritePacket", !.ret = r.err,
                                     !.nPackets = @ + 1, !.crcSeen = r.w.crc,
                                     !.written = IF r.err = "nil" THEN Append(@, pk)
                                                 ELSE @]
                     /\ par' = IF r.err = "nil"
                               THEN [par EXCEPT !.buf = t.rest,
                                                !.compressionEnabled = t.compressionEnabled]
                               ELSE [par EXCEPT !.pc = "ret", !.err = r.err]
    /\ UNCHANGED <<cfg, net, fwd, pipe, now, procs, rcd, vi, ft, vq>>

\* the client->server goroutine: io.Copy(upstreamConn, conn) ends when the
\* client closes or conn is closed; then upstreamConn.CloseWrite(), wg.Done()
C2SCopyDone ==
    /\ procs.c2s = "copy"
    /\ net.clientEOF \/ net.connClosed
    /\ procs' = [procs EXCEPT !.c2s = "done"]
    /\ UNCHANGED <<w, hist, cfg, net, fwd, pipe, par, now, rcd, vi, ft, vq>>

\* go func() { <-ctx.Done(); _ = conn.Close() }()
WatchConn ==
    /\ net.ctxDone /\ ~net.connClosed
    /\ net' = [net EXCEPT !.connClosed = TRUE]
    /\ UNCHANGED <<w, hist, cfg, fwd, pipe, par, now, procs, rcd, vi, ft, vq>>

\* go func() { <-ctx.Done(); _ = upstreamConn.Close() }()
WatchUpstream ==
    /\ net.ctxDone /\ ~net.upClosed
    /\ net' = [net EXCEPT !.upClosed = TRUE]
    /\ UNCHANGED <<w, hist, cfg, fwd, pipe, par, now, procs, rcd, vi, ft, vq>>

\* main goes on to w.Close() without wg.Wait()
mainCanCloseNoWait == procs.main = "wait"

\* main can get past wg.Wait(): both goroutines have called wg.Done()
mainCanClose == procs.main = "wait" /\ procs.c2s = "done" /\ fwd.pc = "done"

\* main: wg.Wait() returns when both goroutines are done; w.Close(); the
\* deferred upstreamConn.Close() and conn.Close()
MainClose ==
    /\ mainCanClose
    /\ \E fail \in SinkFailInputs :
          LET r == Close(w, fail)
          IN  /\ w' = r.w
              /\ hist' = [called(hist, "Close", r.err) EXCEPT !.nClose = @ + 1]
    /\ procs' = [procs EXCEPT !.main = "done"]
    /\ net' = [net EXCEPT !.upClosed = TRUE, !.connClosed = TRUE]
    /\ UNCHANGED <<cfg, fwd, pipe, par, now, rcd, vi, ft, vq>>

\* SIGINT or SIGTERM arrives: ctx is done
Signal ==
    /\ procs.main = "wait"
    /\ ~net.ctxDone
    /\ net' = [net EXCEPT !.ctxDone = TRUE]
    /\ UNCHANGED <<w, hist, cfg, fwd, pipe, par, now, procs, rcd, vi, ft, vq>>

\* the client closes its connection
ClientClose ==
    /\ procs.main = "wait"
    /\ ~net.clientEOF
    /\ net' = [net EXCEPT !.clientEOF = TRUE]
    /\ UNCHANGED <<w, hist, cfg, fwd, pipe, par, now, procs, rcd, vi, ft, vq>>

\* the server closes its connection; the close reaches the proxy after the
\* bytes the server sent
ServerClose ==
    /\ procs.main = "wait"
    /\ net.srcPos = Len(net.stream)
    /\ ~net.serverEOF
    /\ net' = [net EXCEPT !.serverEOF = TRUE]
    /\ UNCHANGED <<w, hist, cfg, fwd, pipe, par, now, procs, rcd, vi, ft, vq>>

\* a millisecond passes; parseAndRecord is the only reader of the clock
Tick ==
    /\ par.pc = "run"
    /\ now < MaxClock
    /\ now' = now + 1
    /\ UNCHANGED <<w, hist, cfg, net, fwd, pipe, par, procs, rcd, vi, ft, vq>>

\* a step of the server->client goroutine
FwdStep ==
    FwdRead \/ FwdDstWrite \/ FwdTeeWrite \/ FwdTeeReturn \/ S2CClosePipe \/ S2CParseWait

\* a step of the parser goroutine
ParserStep == ParserRead \/ ParserEOF \/ ParserFail \/ ParserFrame

NextProxy ==
    \/ FwdRead
    \/ FwdDstWrite
    \/ FwdTeeWrite
    \/ FwdTeeReturn
    \/ S2CClosePipe
    \/ S2CParseWait
    \/ ParserRead
    \/ ParserEOF
    \/ ParserFail
    \/ ParserFrame
    \/ C2SCopyDone
    \/ WatchConn
    \/ WatchUpstream
    \/ MainClose
    \/ Signal
    \/ ClientClose
    \/ ServerClose
    \/ Tick

\* the proxy with its environment, every interleaving
SpecProxy == InitProxy /\ [][NextProxy]_vars

\* the parser goroutine can take a step: it holds a frame or an error of the
\* framing, or its read can return
parserCanStep ==
    /\ par.pc = "run"
    /\ \/ parseTurn(par.buf, cfg, par.compressionEnabled, FALSE).kind # "more"
       \/ pipe.pending # <<>>
       \/ pipe.wclosed

\* the proxy under a fair scheduler: a goroutine that can step eventually
\* does; the environment (signal, peers, clock) is free to do nothing.  For
\* the parser and for main the weak fairness is written out with the
\* condition under which the step is enabled
SpecProxyFair ==
    /\ InitProxy /\ [][NextProxy]_vars
    /\ WF_vars(FwdStep)
    /\ WF_vars(C2SCopyDone)
    /\ WF_vars(WatchConn)
    /\ WF_vars(WatchUpstream)
    /\ ([]<>(~parserCanStep) \/ []<><<ParserStep>>_vars)
    /\ ([]<>(~mainCanClose) \/ []<><<MainClose>>_vars)

(***************************************************************************)
(* The goroutines that call one Recorder.                                  *)
(***************************************************************************)
\* the calls the goroutines make on the Recorder
RecorderCalls ==
    {[NoCall EXCEPT !.op = "RecordNow", !.pk = [ts |-> 0, id |-> 38, payload |-> <<10>>]],
     [NoCall EXCEPT !.op = "RecordAt", !.pk = [ts |-> 1500, id |-> -1, payload |-> <<>>]],
     [NoCall EXCEPT !.op = "Close"],
     [NoCall EXCEPT !.op = "SetSelfID", !.id = 7],
     [NoCall EXCEPT !.op = "AddPlayer", !.uuid = "uuid-a"]}

\* the body of the call c on the Recorder
recorderBody(c, closed, ww, elapsed, fail) ==
    IF c.op = "RecordNow"
    THEN RecorderRecordNow(closed, ww, elapsed, c.pk.id, c.pk.payload, fail)
    ELSE IF c.op = "RecordAt"
    THEN RecorderRecordAt(closed, ww, c.pk.ts, c.pk.id, c.pk.payload, fail)
    ELSE IF c.op = "Close" THEN RecorderClose(closed, ww, fail)
    ELSE IF c.op = "SetSelfID" THEN RecorderSetSelfID(closed, ww, c.id)
    ELSE RecorderAddPlayer(closed, ww, c.uuid)

\* the record of the Writer method a Recorder call reached
histAfter(h, c, r, elapsed) ==
    IF r.called = "WritePacket"
    THEN LET pk == [c.pk EXCEPT !.ts = IF c.op = "RecordNow" THEN elapsed ELSE @]
         IN  [h EXCEPT !.op = "WritePacket", !.ret = r.err, !.nPackets = @ + 1,
                       !.crcSeen = r.w.crc,
                       !.written = IF r.err = "nil" THEN Append(@, pk) ELSE @]
    ELSE IF r.called = "Close" THEN [called(h, "Close", r.err) EXCEPT !.nClose = @ + 1]
    ELSE IF r.called = "SetSelfID" THEN called(h, "SetSelfID", "nil")
    ELSE IF r.called = "AddPlayer"
    THEN [called(h, "AddPlayer", "nil") EXCEPT !.players = Append(@, c.uuid)]
    ELSE h

\* recorder.NewFile(path, meta): a Recorder on a fresh Writer
InitRecorder ==
    /\ w = NewWriter([ZeroMeta EXCEPT !.Protocol = 754], TRUE)
    /\ hist = NoHist
    /\ NoProxy
    /\ rcd = IdleRecorder
    /\ vi = NoVarInt
    /\ ft = NoForward
    /\ vq = NoQuiet

\* a goroutine calls a method of the Recorder
RecCall ==
    \E t \in Callers :
        /\ rcd.pc[t] = "idle"
        /\ rcd.nCalls < MaxOps
        /\ \E c \in RecorderCalls :
              rcd' = [rcd EXCEPT !.pc[t] = "lock", !.call[t] = c, !.nCalls = @ + 1]
        /\ UNCHANGED <<w, hist, proxyVars, vi, ft, vq>>

\* r.mu.Lock() returning while another goroutine holds r.mu
RecLockNoMutex ==
    \E t \in Callers :
        /\ rcd.pc[t] = "lock"
        /\ rcd' = [rcd EXCEPT !.pc[t] = "body", !.mu = t]
        /\ UNCHANGED <<w, hist, proxyVars, vi, ft, vq>>

\* r.mu.Lock() returns in a goroutine
RecLock ==
    \E t \in Callers :
        /\ rcd.pc[t] = "lock"
        /\ rcd.mu = 0
        /\ rcd' = [rcd EXCEPT !.pc[t] = "body", !.mu = t]
        /\ UNCHANGED <<w, hist, proxyVars, vi, ft, vq>>

\* RecordNow, holding r.mu and not closed, reads the clock:
\* ts := uint32(time.Since(r.start).Milliseconds())
RecReadClock ==
    \E t \in Callers :
        /\ rcd.pc[t] = "body"
        /\ rcd.call[t].op = "RecordNow"
        /\ ~rcd.closed
        /\ rcd' = [rcd EXCEPT !.pc[t] = "stamped", !.call[t].pk.ts = now]
        /\ UNCHANGED <<w, hist, proxyVars, vi, ft, vq>>

\* the body of the method, run by the goroutine holding r.mu; a RecordNow
\* that found the Recorder open has read the clock and writes with that ts
RecBody ==
    \E t \in Callers, fail \in SinkFailInputs :
        LET c == rcd.call[t]
            r == recorderBody(c, rcd.closed, w, c.pk.ts, fail)
        IN  /\ \/ rcd.pc[t] = "stamped"
               \/ rcd.pc[t] = "body" /\ (c.op # "RecordNow" \/ rcd.closed)
            /\ w' = r.w
            /\ hist' = histAfter(hist, c, r, c.pk.ts)
            /\ rcd' = [rcd EXCEPT !.pc[t] = "unlock", !.closed = r.closed,
                                  !.ret[t] = r.err, !.nDone = @ + 1,
                                  !.last = [op |-> c.op, ret |-> r.err,
                                            wasClosed |-> rcd.closed]]
            /\ UNCHANGED <<proxyVars, vi, ft, vq>>

\* the deferred r.mu.Unlock() of a goroutine; its call returns
RecUnlock ==
    \E t \in Callers :
        /\ rcd.pc[t] = "unlock"
        /\ rcd' = [rcd EXCEPT !.pc[t] = "idle", !.mu = 0,
                              !.call[t] = NoCall, !.ret[t] = "nil"]
        /\ UNCHANGED <<w, hist, proxyVars, vi, ft, vq>>

\* the owner of the Writer calls w.SetSelfID directly, between Recorder calls
OwnerSetSelfID ==
    /\ rcd.mu = 0
    /\ rcd.nCalls < MaxOps
    /\ \E id \in SelfIDInputs : w' = SetSelfID(w, id + 1)
    /\ hist' = called(hist, "SetSelfID", "nil")
    /\ rcd' = [rcd EXCEPT !.nCalls = @ + 1]
    /\ UNCHANGED <<proxyVars, vi, ft, vq>>

\* the owner of the Writer calls w.AddPlayer directly, between Recorder calls
OwnerAddPlayer ==
    /\ rcd.mu = 0
    /\ rcd.nCalls < MaxOps
    /\ \E uuid \in PlayerInputs :
          /\ w' = AddPlayer(w, uuid)
          /\ hist' = [called(hist, "AddPlayer", "nil") EXCEPT !.players = Append(@, uuid)]
    /\ rcd' = [rcd EXCEPT !.nCalls = @ + 1]
    /\ UNCHANGED <<proxyVars, vi, ft, vq>>

\* a millisecond passes before a RecordNow in progress reads the clock (no
\* other method reads it)
RecTick ==
    /\ \E t \in Callers : rcd.pc[t] \in {"lock", "body"} /\ rcd.call[t].op = "RecordNow"
    /\ now < MaxClock
    /\ now' = now + 1
    /\ UNCHANGED <<w, hist, cfg, net, fwd, pipe, par, procs, rcd, vi, ft, vq>>

NextRecorder ==
    \/ RecCall
    \/ RecLock
    \/ RecReadClock
    \/ RecBody
    \/ RecUnlock
    \/ OwnerSetSelfID
    \/ OwnerAddPlayer
    \/ RecTick

\* goroutines calling one Recorder concurrently
SpecRecorder == InitRecorder /\ [][NextRecorder]_vars

(***************************************************************************)
(* The recording stream, read back.                                        *)
(***************************************************************************)
\* the reader of recording.tmcpr: [time BE][len BE][varint id][payload]...
RECURSIVE decodeRecording(_)
decodeRecording(b) ==
    IF b = <<>> THEN [ok |-> TRUE, packets |-> <<>>]
    ELSE IF Len(b) < 8 THEN [ok |-> FALSE, packets |-> <<>>]
    ELSE LET ts    == Uint32(SubSeq(b, 1, 4))
             total == Uint32(SubSeq(b, 5, 8))
             body  == SubSeq(b, 9, 8 + total)
             v     == readVarInt(body)
             rest  == decodeRecording(SubSeq(b, 9 + total, Len(b)))
         IN  IF Len(b) < 8 + total \/ v.err # "nil"
             THEN [ok |-> FALSE, packets |-> <<>>]
             ELSE [ok |-> rest.ok,
                   packets |-> <<[ts |-> ts, id |-> toInt32(v),
                                  payload |-> SubSeq(body, v.n + 1, Len(body))]>>
                               \o rest.packets]

\* the bytes of the recording entry
recording == w.entries[recw].data

\* the layout the format gives one message
expectedFrame(pk) ==
    PutUint32(pk.ts) \o PutUint32(Len(encodeVarInt(pk.id)) + Len(pk.payload))
        \o encodeVarInt(pk.id) \o pk.payload

expectedRecording == Concat([i \in 1..Len(hist.written) |-> expectedFrame(hist.written[i])])

RECURSIVE maxTs(_)
maxTs(pks) == IF pks = <<>> THEN 0 ELSE Max(Head(pks).ts, maxTs(Tail(pks)))

(***************************************************************************)
(* The VarInt codec on its own: a value is encoded as WritePacket encodes   *)
(* a packet id, and the bytes are read back as parseAndRecord reads them,   *)
(* from a reader that may hold more bytes after the VarInt.                 *)
(***************************************************************************)
\* how far around each boundary value the inputs reach
VarIntSpan == 3

MaxInt32 == 2147483647
MinInt32 == (-2147483647) - 1

\* the int32 values encoded: around 0 and around the values at which the
\* encoding of the value, or of its unsigned pattern, grows by a byte, and
\* at both ends of int32
VarIntInputs ==
    UNION {{p + d, (-p) + d} : <<p, d>> \in
              {0, 128, 16384, 2097152, 268435456} \X (-VarIntSpan..VarIntSpan)}
      \cup {MaxInt32 - d : d \in 0..VarIntSpan}
      \cup {MinInt32 + d : d \in 0..VarIntSpan}

\* what may follow the VarInt in the reader
TailInputs == {<<>>, <<255>>, <<0, 129>>}

\* the longest byte source handed to readVarInt
MaxRawLen == 6

\* the bytes of those sources: the least and the greatest byte with the high
\* bit clear, and with it set
RawBytes == {0, 127, 128, 255}

\* what a reader handed to readVarInt may hold
RawInputs == UNION {[1..n -> RawBytes] : n \in 0..MaxRawLen}

\* a caller with a value to encode, or with a reader to decode from
InitVarInt ==
    /\ w = NewWriter([ZeroMeta EXCEPT !.Protocol = 754], TRUE)
    /\ hist = NoHist
    /\ NoProxy
    /\ rcd = IdleRecorder
    /\ \/ \E v \in VarIntInputs : vi = [NoVarInt EXCEPT !.pc = "start", !.v = v]
       \/ \E s \in RawInputs : vi = [NoVarInt EXCEPT !.pc = "raw", !.src = s]
    /\ ft = NoForward
    /\ vq = NoQuiet

\* encodeVarInt(v)
VarIntEncode ==
    /\ vi.pc = "start"
    /\ vi' = [vi EXCEPT !.pc = "encoded", !.enc = encodeVarInt(vi.v)]
    /\ UNCHANGED <<w, hist, proxyVars, rcd, ft, vq>>

\* readVarInt on a reader holding the encoding and what follows it
VarIntDecode ==
    /\ vi.pc = "encoded"
    /\ \E tail \in TailInputs :
          vi' = [vi EXCEPT !.pc = "decoded", !.src = vi.enc \o tail,
                           !.dec = readVarInt(vi.enc \o tail)]
    /\ UNCHANGED <<w, hist, proxyVars, rcd, ft, vq>>

\* readVarInt on a reader holding any bytes
VarIntReadRaw ==
    /\ vi.pc = "raw"
    /\ vi' = [vi EXCEPT !.pc = "rawread", !.dec = readVarInt(vi.src)]
    /\ UNCHANGED <<w, hist, proxyVars, rcd, ft, vq>>

NextVarInt == VarIntEncode \/ VarIntDecode \/ VarIntReadRaw

SpecVarInt == InitVarInt /\ [][NextVarInt]_vars

(***************************************************************************)
(* forwardWithTee on its own, with any io.Reader as src and any io.Writer   *)
(* as dst and tee: a Read may return bytes, an error, or both; either       *)
(* Write may fail after taking some of the bytes.                           *)
(***************************************************************************)
\* the Read calls after which src only reports errors
MaxReads == 3

\* what src.Read reports besides the bytes
ReadErrInputs == {"nil", "EOF", "connection reset"}

\* the bytes i+1 .. i+n of the source
chunk(i, n) == [k \in 1..n |-> i + k]

\* the caller reporting every error, end-of-input included
forwardReportsAny(err) == err # "nil"

\* main: "if err := forwardWithTee(...); err != nil && err != io.EOF"
forwardReports(err) == err # "nil" /\ err # "EOF"

InitForward ==
    /\ w = NewWriter([ZeroMeta EXCEPT !.Protocol = 754], TRUE)
    /\ hist = NoHist
    /\ NoProxy
    /\ rcd = IdleRecorder
    /\ vi = NoVarInt
    /\ vq = NoQuiet
    /\ \E hasTee \in BOOLEAN : ft = [NoForward EXCEPT !.pc = "read", !.hasTee = hasTee]

\* n, rerr := src.Read(buf); with n = 0 the loop goes to the rerr check
FwdTRead ==
    /\ ft.pc = "read"
    /\ \E n \in 0..ChunkMax, rerr \in ReadErrInputs :
          /\ ft.nReads < MaxReads \/ rerr # "nil"
          /\ ft' = [ft EXCEPT !.pc = IF n > 0 THEN "write" ELSE "check",
                              !.nReads = @ + 1, !.sent = @ + n,
                              !.buf = chunk(ft.sent, n), !.rerr = rerr]
    /\ UNCHANGED <<w, hist, proxyVars, rcd, vi, vq>>

\* dst.Write(buf[:n]): it takes all the bytes, or fails having taken fewer;
\* "if werr != nil { return werr }"
FwdTDstWrite ==
    /\ ft.pc = "write"
    /\ \/ ft' = [ft EXCEPT !.pc = IF ft.hasTee THEN "tee" ELSE "check",
                            !.werr = "nil", !.delivered = @ \o ft.buf]
       \/ \E k \in 0..(Len(ft.buf) - 1) :
             ft' = [ft EXCEPT !.pc = "ret", !.werr = "broken pipe",
                              !.err = "broken pipe",
                              !.delivered = @ \o SubSeq(ft.buf, 1, k)]
    /\ UNCHANGED <<w, hist, proxyVars, rcd, vi, vq>>

\* tee.Write(buf[:n]): terr is dropped
FwdTTeeWrite ==
    /\ ft.pc = "tee"
    /\ \/ ft' = [ft EXCEPT !.pc = "check", !.terr = "nil", !.mirrored = @ \o ft.buf]
       \/ \E k \in 0..(Len(ft.buf) - 1) :
             ft' = [ft EXCEPT !.pc = "check", !.terr = "closed pipe",
                              !.teeErrs = @ + 1,
                              !.mirrored = @ \o SubSeq(ft.buf, 1, k)]
    /\ UNCHANGED <<w, hist, proxyVars, rcd, vi, vq>>

\* "if rerr != nil { return rerr }", else the next turn of the loop
FwdTCheck ==
    /\ ft.pc = "check"
    /\ ft' = IF ft.rerr # "nil" THEN [ft EXCEPT !.pc = "ret", !.err = ft.rerr]
             ELSE [ft EXCEPT !.pc = "read"]
    /\ UNCHANGED <<w, hist, proxyVars, rcd, vi, vq>>

\* the caller: log.Printf("forward: %v", err) unless err is io.EOF
FwdTCaller ==
    /\ ft.pc = "ret"
    /\ ft' = [ft EXCEPT !.pc = "done",
                        !.log = IF forwardReports(ft.err) THEN Append(@, ft.err) ELSE @]
    /\ UNCHANGED <<w, hist, proxyVars, rcd, vi, vq>>

NextForward == FwdTRead \/ FwdTDstWrite \/ FwdTTeeWrite \/ FwdTCheck \/ FwdTCaller

SpecForward == InitForward /\ [][NextForward]_vars

(***************************************************************************)
(* Callers of ValidateFile and ValidateFileQuiet on a file of any content.  *)
(* The log package's flags are never changed, so log.Flags and log.SetFlags *)
(* leave them as they are; its output is read with log.Writer and set with  *)
(* log.SetOutput, each under the logger's own lock.                         *)
(***************************************************************************)
\* the goroutines calling ValidateFileQuiet
NumQuietCallers == 2

QuietCallers == 1..NumQuietCallers

\* metadata with nothing to warn about, and with every advisory condition
GoodMeta ==
    [ZeroMeta EXCEPT !.FileFormat = "MCPR", !.FileFormatVersion = CurrentFileFormatVersion,
                     !.Protocol = 754, !.Duration = 3000, !.Generator = "mc-replay-go"]
OddMeta == [ZeroMeta EXCEPT !.FileFormat = "XYZ", !.FileFormatVersion = 99]

\* the entries an archive may hold, by name
RecordingEntries ==
    {<<>>, <<NewEntry("recording.tmcpr")>>,
     <<[NewEntry("recording.tmcpr") EXCEPT !.data = <<0, 0, 0, 0, 0, 0, 0, 1, 38>>]>>}
MetaEntries ==
    {<<>>, <<[NewEntry("metaData.json") EXCEPT !.data = <<123>>]>>,
     <<[NewEntry("metaData.json") EXCEPT !.isJson = TRUE, !.doc = MarshalMeta(GoodMeta)]>>,
     <<[NewEntry("metaData.json") EXCEPT !.isJson = TRUE, !.doc = MarshalMeta(OddMeta)]>>}
ModsEntries ==
    {<<>>, <<[NewEntry("mods.json") EXCEPT !.isJson = TRUE, !.doc = ModsDoc]>>}
CrcEntries ==
    {<<>>, <<[NewEntry("recording.tmcpr.crc32") EXCEPT !.data = <<48>>]>>}

\* the files at the path: none, an empty one, one that is no archive, and
\* archives of every combination of entries, with a metadata entry that
\* reads or fails to open or to read
FileInputs ==
    {[exists |-> FALSE, size0 |-> FALSE, zip |-> FALSE, mdErr |-> "nil", entries |-> <<>>],
     [exists |-> TRUE, size0 |-> TRUE, zip |-> FALSE, mdErr |-> "nil", entries |-> <<>>],
     [exists |-> TRUE, size0 |-> FALSE, zip |-> FALSE, mdErr |-> "nil", entries |-> <<>>]}
    \cup {[exists |-> TRUE, size0 |-> FALSE, zip |-> TRUE, mdErr |-> "nil",
           entries |-> r \o m \o o \o c] :
              r \in RecordingEntries, m \in MetaEntries, o \in ModsEntries, c \in CrcEntries}
    \cup {[exists |-> TRUE, size0 |-> FALSE, zip |-> TRUE, mdErr |-> e,
           entries |-> <<NewEntry("recording.tmcpr"),
                         [NewEntry("metaData.json") EXCEPT !.isJson = TRUE,
                                                           !.doc = MarshalMeta(GoodMeta)]>>] :
              e \in {"open", "read"}}

InitValidate ==
    /\ w = NewWriter([ZeroMeta EXCEPT !.Protocol = 754], TRUE)
    /\ hist = NoHist
    /\ NoProxy
    /\ rcd = IdleRecorder
    /\ vi = NoVarInt
    /\ ft = NoForward
    /\ \E f \in FileInputs :
          vq = [NoQuiet EXCEPT !.file = f, !.direct = "idle",
                               !.pc = [t \in QuietCallers |-> "idle"],
                               !.old = [t \in QuietCallers |-> ""]]

\* what a run of ValidateFile leaves in vq: its result, and a mark when the
\* log package wrote its lines to os.Stderr
afterValidate(q) ==
    [q EXCEPT !.res = ValidateFile(q.file),
              !.logged = IF q.output = "os.Stderr" THEN @ + 1 ELSE @]

\* a call of ValidateFile(path)
VDirect ==
    /\ vq.direct = "idle"
    /\ vq' = [afterValidate(vq) EXCEPT !.direct = "done"]
    /\ UNCHANGED <<w, hist, proxyVars, rcd, vi, ft>>

\* ValidateFileQuiet: oldFlags := log.Flags(); oldOutput := log.Writer()
QuietSave ==
    \E t \in QuietCallers :
        /\ vq.pc[t] = "idle"
        /\ vq' = [vq EXCEPT !.pc[t] = "saved", !.old[t] = vq.output]
        /\ UNCHANGED <<w, hist, proxyVars, rcd, vi, ft>>

\* ValidateFileQuiet: log.SetOutput(io.Discard)
QuietDiscard ==
    \E t \in QuietCallers :
        /\ vq.pc[t] = "saved"
        /\ vq' = [vq EXCEPT !.pc[t] = "discarding", !.output = "io.Discard"]
        /\ UNCHANGED <<w, hist, proxyVars, rcd, vi, ft>>

\* ValidateFileQuiet: ValidateFile(path)
QuietValidate ==
    \E t \in QuietCallers :
        /\ vq.pc[t] = "discarding"
        /\ vq' = [afterValidate(vq) EXCEPT !.pc[t] = "validated"]
        /\ UNCHANGED <<w, hist, proxyVars, rcd, vi, ft>>

\* ValidateFileQuiet's deferred function: log.SetFlags(oldFlags);
\* log.SetOutput(oldOutput); the call returns
QuietRestore ==
    \E t \in QuietCallers :
        /\ vq.pc[t] = "validated"
        /\ vq' = [vq EXCEPT !.pc[t] = "done", !.output = vq.old[t]]
        /\ UNCHANGED <<w, hist, proxyVars, rcd, vi, ft>>

NextValidate == VDirect \/ QuietSave \/ QuietDiscard \/ QuietValidate \/ QuietRestore

SpecValidate == InitValidate /\ [][NextValidate]_vars

(***************************************************************************)
(* Claims about the Writer.                                                *)
(***************************************************************************)
\* a step that is a call of Close, of WritePacket, of CreateEntry
isCloseCall == hist'.nClose > hist.nClose
isWritePacketCall == hist'.nPackets > hist.nPackets
isCreateEntryCall == hist'.nCalls > hist.nCalls /\ hist'.op = "CreateEntry"

\* C1: while no write to the sink has failed, the recording entry is exactly
\* the concatenation, in call order and without separators, of the frames
\* [ts BE][len(varint(id)) + len(payload) BE][varint(id)][payload] of the
\* WritePacket calls that returned nil, and decoding it yields those (ts, id,
\* payload) triples in that order; in every state those frames are a prefix of it.
C1_RoundTrip ==
    /\ IsPrefix(expectedRecording, recording)
    /\ ~w.ioErr =>
          /\ recording = expectedRecording
          /\ decodeRecording(recording) = [ok |-> TRUE, packets |-> hist.written]

C1_Witness ==
    /\ ~w.ioErr
    /\ Len(hist.written) = 2
    /\ hist.written[1].id = -1
    /\ hist.written[2].payload # <<>>

\* C2: the duration a Close call writes into the metaData.json entry is the
\* largest timestamp of the WritePacket calls that returned nil, 0 when there
\* is none, whatever their order and whatever Duration the initial Meta held.
C2_DurationIsMaxTs ==
    \A i \in 1..Len(w.entries) :
        (w.entries[i].name = "metaData.json" /\ w.entries[i].isJson)
            => UnmarshalMeta(w.entries[i].doc).Duration = maxTs(hist.written)

C2_Witness ==
    /\ w.closed
    /\ w.meta.FileFormat = "XYZ"
    /\ Len(hist.written) = 2
    /\ hist.written[1].ts > hist.written[2].ts
    /\ UnmarshalMeta(w.entries[fileMap(w.entries, "metaData.json")].doc).Duration = 1500

\* C3: in every state the running checksum is the IEEE CRC-32 of the bytes of
\* the recording entry, the checksum entry once written holds the decimal text
\* of the CRC-32 of the whole recording entry, and only a WritePacket call
\* changes the checksum.
C3_ChecksumOfRecording ==
    /\ w.crc = ChecksumIEEE(recording)
    /\ \A i \in 1..Len(w.entries) :
          w.entries[i].name = "recording.tmcpr.crc32"
              => w.entries[i].data \in {<<>>, Sprintf_d(ChecksumIEEE(recording))}
    /\ w.crc = hist.crcSeen

C3_Witness ==
    /\ w.closed
    /\ Len(hist.written) = 2
    /\ w.entries[Len(w.entries)].data = Sprintf_d(ChecksumIEEE(recording))
    /\ Len(w.entries[Len(w.entries)].data) > 1

\* C4 as stated: every Close call after the first is a no-op that returns
\* success.
C4_SecondCloseReturnsSuccess ==
    [][(isCloseCall /\ hist.nClose >= 1) => (hist'.ret = "nil" /\ w' = w)]_vars

\* C4, amended: every Close call after the first leaves the Writer and the
\* container as they were (no entry created, no byte written); it returns
\* success when an earlier call finalized the Writer, and an error again when
\* no earlier call did.
C4_SecondCloseNoOp ==
    [][(isCloseCall /\ hist.nClose >= 1)
          => /\ w' = w
             /\ w.closed => hist'.ret = "nil"
             /\ ~w.closed => hist'.ret = "io"]_vars

C4_Witness ==
    /\ hist.nClose = 2
    /\ hist.op = "Close"
    /\ hist.ret = "nil"
    /\ w.closed /\ w.zwClosed
    /\ Len(hist.written) >= 1

\* C5: the Close call that writes the archive of a file runs ValidateFile on
\* that file.
C5_CloseRunsValidateFile ==
    [][(isCloseCall /\ ~w.closed /\ w'.closed /\ w.hasFile)
          => hist'.nValidate > hist.nValidate]_vars

C7_ClosedWriterRejects ==
    [][(w.closed /\ (isWritePacketCall \/ isCreateEntryCall))
          => /\ hist'.ret = "mcpr: writer closed"
             /\ w' = w
             /\ hist'.written = hist.written]_vars

C7_Witness ==
    /\ w.closed
    /\ hist.op \in {"WritePacket", "CreateEntry"}
    /\ hist.ret = "mcpr: writer closed"
    /\ Len(hist.written) >= 1

(***************************************************************************)
(* The proxy: the tee and the shutdown.                                    *)
(***************************************************************************)
\* the forwarder is inside tee.Write and the parser has not taken the bytes
blockedInTee == fwd.pc = "teeWait" /\ pipe.pending # <<>>

\* the parser is not reading: it holds a whole frame and is still decoding
\* and recording it
parserBusy ==
    /\ par.pc = "run"
    /\ parseTurn(par.buf, cfg, par.compressionEnabled, FALSE).kind = "packet"

\* C8: the tee never blocks the primary path: while the source has a next
\* chunk ready and the parser is busy with an earlier frame, forwardWithTee
\* is never held back waiting for the parser to consume mirrored bytes.
C8_TeeNeverBlocks ==
    (net.srcPos < Len(net.stream) /\ ~net.upClosed /\ parserBusy)
        => ~blockedInTee

\* C9: a recording-path failure never stops forwarding: once parseAndRecord
\* has returned, forwardWithTee is never held in the mirror write, so it goes
\* on reading and delivering until the source ends or a read or write fails.
C9_ParserFailureKeepsForwarding ==
    par.pc = "ret" => ~blockedInTee

\* C10: liveness of shutdown: once the signal has fired or a peer has closed
\* its connection, main eventually gets past wg.Wait() (both flows and the
\* parser have ended) and has called Writer.Close exactly once.
C10_ShutdownTerminates ==
    (net.ctxDone \/ net.serverEOF \/ net.clientEOF)
        ~> (procs.main = "done" /\ fwd.pc = "done" /\ par.pc = "ret" /\ hist.nClose = 1)

\* C11: in the proxy Writer.Close starts only when both forwarding goroutines
\* and the parser goroutine have ended, and no WritePacket call is made once
\* Close has been called.
C11_CloseAfterFlows ==
    [][/\ isCloseCall => (procs.c2s = "done" /\ fwd.pc = "done" /\ par.pc = "ret")
       /\ hist.nClose >= 1 => ~isWritePacketCall]_vars

C11_Witness ==
    /\ procs.main = "done"
    /\ hist.op = "Close" /\ hist.ret = "nil" /\ hist.nClose = 1
    /\ Len(hist.written) = 2
    /\ par.err = "EOF"

\* C25: once CreateEntry has succeeded on an open Writer, no step changes
\* the recording entry, the running checksum or the tracked maximum
\* timestamp, and every later WritePacket call returns an error.
C25_CreateEntryFreezesStream ==
    [][hist.auxNames # <<>> =>
          /\ recording' = recording
          /\ w'.crc = w.crc
          /\ w'.duration = w.duration
          /\ isWritePacketCall => hist'.ret # "nil"]_vars

C25_Witness ==
    /\ hist.auxNames = <<"assets.bin">>
    /\ hist.op = "WritePacket" /\ hist.ret = "zip: write to closed file"
    /\ Len(hist.written) = 1 /\ hist.nPackets = 2
    /\ recording = expectedRecording

\* C27 as stated: a WritePacket call that fails with an I/O error leaves the
\* recording entry, the running checksum and the tracked maximum timestamp
\* as they were before the call.
C27_FailedWritePacketAtomic ==
    [][(isWritePacketCall /\ hist'.ret = "io") =>
          /\ recording' = recording
          /\ w'.crc = w.crc
          /\ w'.duration = w.duration]_vars

\* C27: a WritePacket call that fails with an I/O error leaves the tracked
\* maximum timestamp as it was and only appends to the recording entry (a
\* part of its frame may stay there); the failure sticks: every later
\* WritePacket and every later Close of the open Writer fails and leaves
\* the entry alone, so an archive that was closed holds whole messages only.
C27_FailedWritePacketIsFatal ==
    [][/\ (isWritePacketCall /\ hist'.ret = "io") =>
             /\ w'.duration = w.duration
             /\ IsPrefix(recording, recording')
             /\ IsPrefix(expectedRecording', recording')
             /\ w'.ioErr
       /\ (w.ioErr /\ (isWritePacketCall \/ isCloseCall)) =>
             /\ hist'.ret # "nil"
             /\ recording' = recording /\ w'.crc = w.crc /\ w'.duration = w.duration
             /\ ~w'.zwClosed
       /\ w'.zwClosed =>
             /\ recording' = expectedRecording'
             /\ decodeRecording(recording').ok]_vars

C27_Witness ==
    /\ hist.op = "WritePacket" /\ hist.ret = "io" /\ hist.nPackets = 3
    /\ Len(hist.written) = 1
    /\ w.ioErr
    /\ Len(recording) = Len(expectedRecording) + 8

(***************************************************************************)
(* Claims about the Recorder.                                              *)
(***************************************************************************)
\* a step that runs the body of a Recorder method; of a record method, of
\* Close, of SetSelfID or AddPlayer
isRecBody == rcd'.nDone > rcd.nDone
isRecordBody == isRecBody /\ rcd'.last.op \in {"RecordNow", "RecordAt"}
isRecCloseBody == isRecBody /\ rcd'.last.op = "Close"
isRecMetaBody == isRecBody /\ rcd'.last.op \in {"SetSelfID", "AddPlayer"}
\* a step in which the owner calls SetSelfID or AddPlayer on the Writer itself
isOwnerMetaCall == rcd'.nDone = rcd.nDone /\ hist'.nCalls > hist.nCalls

\* C12: with goroutines calling RecordNow, RecordAt and Close concurrently,
\* a record call whose body runs once Close has set the closed flag returns
\* nil and leaves the Writer untouched, and no record call returns the
\* Writer's closed error.
C12_LateRecordCallsBenign ==
    [][isRecordBody
          => /\ rcd'.last.ret # "mcpr: writer closed"
             /\ rcd.closed => (rcd'.last.ret = "nil" /\ w' = w /\ hist' = hist)]_vars

C12_Witness ==
    /\ rcd.last.op = "RecordAt" /\ rcd.last.wasClosed /\ rcd.last.ret = "nil"
    /\ hist.nClose = 1 /\ w.closed
    /\ Len(hist.written) = 1

\* C13: over any number of sequential or concurrent Recorder.Close calls,
\* Writer.Close is invoked once, by the first call to run, and every later
\* call returns nil without touching the Writer.
C13_RecorderCloseOnce ==
    [][/\ hist'.nClose <= 1
       /\ isRecCloseBody
             => IF rcd.closed
                THEN rcd'.last.ret = "nil" /\ w' = w /\ hist' = hist
                ELSE hist.nClose = 0 /\ hist'.nClose = 1]_vars

C13_Witness ==
    /\ rcd.last.op = "Close" /\ rcd.last.wasClosed /\ rcd.last.ret = "nil"
    /\ rcd.nDone = 2
    /\ \E t \in Callers : rcd.pc[t] = "unlock" /\ rcd.call[t].op = "Close"
    /\ hist.nClose = 1 /\ hist.op = "Close" /\ hist.ret = "io"
    /\ ~w.closed

\* the messages RecordNow wrote (the only calls made with packet id 38)
isRecordNowMessage(pk) == pk.id = 38

RECURSIVE firstSeen(_)
firstSeen(s) ==
    IF s = <<>> THEN <<>>
    ELSE LET r == firstSeen(SubSeq(s, 1, Len(s) - 1))
             x == s[Len(s)]
         IN  IF \E i \in 1..Len(r) : r[i] = x THEN r ELSE Append(r, x)

\* C14: starting from a duplicate-free player list, after any sequence of
\* AddPlayer calls the list holds each distinct UUID once, in the order of
\* first insertion (a call with a UUID already present changes nothing).
C14_AddPlayerFirstSeen ==
    /\ w.meta.Players = firstSeen(hist.players)
    /\ \A i, j \in 1..Len(w.meta.Players) :
          w.meta.Players[i] = w.meta.Players[j] => i = j

C14_Witness ==
    /\ hist.players = <<"uuid-b", "uuid-a", "uuid-b">>
    /\ w.meta.Players = <<"uuid-b", "uuid-a">>
    /\ hist.op = "AddPlayer"

(***************************************************************************)
(* Claims about parseAndRecord.                                            *)
(***************************************************************************)
\* parseAndRecord has read a frame length that is <= 0 or above 8 MiB
frameLengthOutOfRange ==
    /\ par.pc = "run"
    /\ LET len == readVarInt(par.buf)
       IN  /\ len.err = "nil"
           /\ (len.hi > 0 \/ len.lo <= 0 \/ len.lo > 8 * 1048576)

\* C16: a frame whose length VarInt decodes to a value <= 0 or above 8 MiB
\* makes parseAndRecord return "invalid frame length" without a WritePacket
\* call for it, and the messages written before it stay in the recording
\* unchanged from then on.
C16_InvalidFrameLengthStops ==
    [][/\ (frameLengthOutOfRange /\ par' # par) =>
             /\ par'.pc = "ret" /\ par'.err = "invalid frame length"
             /\ w' = w /\ hist' = hist
       /\ par.err = "invalid frame length" =>
             /\ ~isWritePacketCall
             /\ hist'.written = hist.written
             /\ IsPrefix(recording, recording')
             /\ par' = par]_vars

C16_Witness ==
    /\ par.pc = "ret" /\ par.err = "invalid frame length"
    /\ par.buf = <<129, 128, 128, 4>>
    /\ Len(hist.written) = 1 /\ hist.nPackets = 1
    /\ recording = expectedRecording
    /\ hist.nClose = 1

\* the bytes p are one VarInt and nothing else: 1 to 5 bytes, the high bit
\* set on all of them but the last
isOneVarInt(p) ==
    /\ Len(p) \in 1..5
    /\ \A i \in 1..Len(p) : (p[i] >= 128) <=> (i < Len(p))

\* the frame parseAndRecord holds, read as an uncompressed frame
rawFrame ==
    LET len == readVarInt(par.buf)
    IN  SubSeq(par.buf, len.n + 1, len.n + len.lo)

rawPayload == SubSeq(rawFrame, readVarInt(rawFrame).n + 1, Len(rawFrame))

\* C17: while compression is not enabled, a message is decoded and recorded
\* as an uncompressed frame, and parseAndRecord goes on with compression
\* enabled exactly when auto-detection is on, compression is not assumed off
\* and the payload of that message is exactly one VarInt; with auto-detection
\* disabled no step changes the compression state.
C17_HeuristicDetection ==
    [][/\ (isWritePacketCall /\ ~par.compressionEnabled) =>
             /\ hist'.ret = "nil" =>
                   LET pk == hist'.written[Len(hist'.written)]
                   IN  /\ pk.id = toInt32(readVarInt(rawFrame))
                       /\ pk.payload = rawPayload
             /\ par'.pc = "run" =>
                   (par'.compressionEnabled <=>
                       (cfg.guessCompress /\ ~cfg.assumeNoCompress /\ isOneVarInt(rawPayload)))
       /\ ~cfg.guessCompress => par'.compressionEnabled = par.compressionEnabled]_vars

C17_Witness ==
    /\ cfg = DefaultFlags /\ par.compressionEnabled
    /\ hist.written = <<[ts |-> 0, id |-> 3, payload |-> <<5>>],
                        [ts |-> 0, id |-> 38, payload |-> <<>>]>>

\* C18: the compression state is monotonic: it starts disabled unless a
\* threshold >= 0 is forced, and once enabled no step (a frame, an error, the
\* end of the stream) sets it back to disabled, so it changes at most once.
C18_CompressionMonotonic ==
    /\ (par.compressionEnabled <=> cfg.forceThreshold >= 0)
    /\ [][par.compressionEnabled => par'.compressionEnabled]_vars

C18_Witness ==
    /\ cfg.forceThreshold < 0 /\ par.compressionEnabled
    /\ par.pc = "ret" /\ par.err = "EOF"
    /\ Len(hist.written) = 2

\* parseAndRecord holds a whole frame, compression is enabled, the frame
\* declares a positive uncompressed size and the rest of it does not inflate
inflateFails ==
    /\ par.pc = "run" /\ par.compressionEnabled /\ ~cfg.assumeNoCompress
    /\ LET len  == readVarInt(par.buf)
           size == readVarInt(rawFrame)
       IN  /\ len.err = "nil" /\ len.hi = 0 /\ len.lo > 0 /\ len.lo <= 8 * 1048576
           /\ Len(par.buf) >= len.n + len.lo
           /\ size.err = "nil" /\ (size.hi > 0 \/ size.lo > 0)
           /\ zlibInflate(SubSeq(rawFrame, size.n + 1, Len(rawFrame))).err # "nil"

\* C19: a failed decompression is not fatal: with compression enabled, on a
\* frame that declares a positive uncompressed size and does not inflate,
\* parseAndRecord calls WritePacket with the id and payload read from the raw
\* frame bytes, and unless that call fails it goes on to the next frame.
C19_InflateFailureFallsBack ==
    [][(inflateFails /\ par' # par) =>
          /\ isWritePacketCall
          /\ IF hist'.ret = "nil"
             THEN LET pk  == hist'.written[Len(hist'.written)]
                      len == readVarInt(par.buf)
                  IN  /\ pk.id = toInt32(readVarInt(rawFrame))
                      /\ pk.payload = rawPayload
                      /\ par'.pc = "run" /\ par'.err = "nil"
                      /\ par'.buf = SubSeq(par.buf, len.n + len.lo + 1, Len(par.buf))
             ELSE par'.pc = "ret" /\ par'.err = hist'.ret]_vars

C19_Witness ==
    /\ cfg = ForcedFlags /\ par.pc = "run" /\ par.buf = <<2, 0, 38>>
    /\ Len(hist.written) = 1
    /\ hist.written[1].id = 3 /\ hist.written[1].payload = <<5>>

(***************************************************************************)
(* Claims about the VarInt codec.                                          *)
(***************************************************************************)
\* the encoding is 1 to 5 bytes, the high bit set on all of them but the last
wellFormedVarInt(enc) ==
    /\ Len(enc) \in 1..5
    /\ \A i \in 1..Len(enc) :
          /\ enc[i] \in 0..255
          /\ (enc[i] >= 128) <=> (i < Len(enc))

\* the int64 that readVarInt returned is the int32 v
int64Is(r, v) == r.hi < 8 /\ (r.hi * 268435456) + r.lo = v

\* C20 as stated: for every int32 v, readVarInt on encodeVarInt(v) returns v,
\* and the encoding is 1 to 5 bytes with the high bit on all but the last.
C20_VarIntRoundTripInt64 ==
    vi.pc = "decoded" =>
        /\ vi.dec.err = "nil" /\ int64Is(vi.dec, vi.v)
        /\ wellFormedVarInt(vi.enc)

\* C20: for every int32 v, encodeVarInt(v) is 1 to 5 bytes with the high bit
\* set on every byte but the last; readVarInt consumes exactly those bytes
\* and returns the unsigned 32-bit pattern of v, which is v itself for
\* v >= 0 and becomes v for every v after the conversion to int32.
C20_VarIntRoundTrip ==
    vi.pc = "decoded" =>
        /\ wellFormedVarInt(vi.enc)
        /\ vi.dec.err = "nil" /\ vi.dec.n = Len(vi.enc)
        /\ toInt32(vi.dec) = vi.v
        /\ int64Is(vi.dec, vi.v) <=> vi.v >= 0

C20_Witness ==
    /\ vi.pc = "decoded" /\ vi.v = -1
    /\ vi.enc = <<255, 255, 255, 255, 15>>
    /\ vi.src = <<255, 255, 255, 255, 15, 255>>
    /\ vi.dec = [err |-> "nil", lo |-> 268435455, hi |-> 15, n |-> 5]

\* the place, among the first five bytes of s, of the first byte with the
\* high bit clear; 0 when there is none
firstClear(s) ==
    LET ks == {k \in 1..5 : k <= Len(s) /\ s[k] < 128}
    IN  IF ks = {} THEN 0 ELSE CHOOSE k \in ks : \A j \in ks : k <= j

\* C21: on any input readVarInt consumes at most 5 bytes, returns at the
\* first byte whose high bit is clear, and fails with an error when none of
\* the first 5 bytes has its high bit clear.
C21_ReadVarIntBounded ==
    vi.pc = "rawread" =>
        LET k == firstClear(vi.src)
        IN  /\ vi.dec.n <= 5
            /\ k > 0 => (vi.dec.err = "nil" /\ vi.dec.n = k)
            /\ k = 0 =>
                  IF Len(vi.src) >= 5
                  THEN vi.dec.err = "varint too long" /\ vi.dec.n = 5
                  ELSE vi.dec.err = "EOF" /\ vi.dec.n = Len(vi.src)

C21_Witness ==
    /\ vi.pc = "rawread"
    /\ vi.src = <<128, 255, 128, 255, 128, 0>>
    /\ vi.dec.err = "varint too long" /\ vi.dec.n = 5

(***************************************************************************)
(* Claims about forwardWithTee.                                            *)
(***************************************************************************)
\* a step in which forwardWithTee returns
isForwardReturn == ft.pc # "ret" /\ ft'.pc = "ret"

hasEntry(f, name) == \E i \in 1..Len(f.entries) : f.entries[i].name = name

\* the metadata entry of the file reads and parses
metadataParses(f) ==
    /\ f.mdErr = "nil"
    /\ \E i \in 1..Len(f.entries) :
          /\ f.entries[i].name = "metaData.json"
          /\ \A j \in (i + 1)..Len(f.entries) : f.entries[j].name # "metaData.json"
          /\ f.entries[i].isJson

\* the file is missing or empty, is not a readable archive, lacks the
\* recording entry or the metadata entry, or its metadata does not parse
structuralDefect(f) ==
    \/ ~f.exists \/ f.size0 \/ ~f.zip
    \/ ~hasEntry(f, "recording.tmcpr")
    \/ ~hasEntry(f, "metaData.json")
    \/ ~metadataParses(f)

\* C23: ValidateFile returns an error if and only if the file has a
\* structural defect (missing or empty, not a readable archive, no recording
\* entry, no metadata entry, metadata that does not read or parse); the
\* advisory conditions only add warnings to a successful result.
C23_ValidateFailsOnStructure ==
    vq.res.err # "" =>
        /\ (vq.res.err # "nil") <=> structuralDefect(vq.file)
        /\ vq.res.err # "nil" =>
              vq.res.warnings \subseteq {"recording.tmcpr is empty"}

C23_Witness ==
    /\ vq.direct = "done" /\ vq.res.err = "nil"
    /\ Cardinality(vq.res.warnings) = 7
    /\ Len(vq.file.entries) = 2

\* C30: once every ValidateFileQuiet call that was started has returned, the
\* log package's output is the one configured before the first call started.
C30_QuietRestoresOutput ==
    (\A t \in DOMAIN vq.pc : vq.pc[t] \in {"idle", "done"}) => vq.output = "os.Stderr"

\* C28: the mirror never runs ahead of the primary path: the bytes handed to
\* the parser, those still offered to it included, are at every moment a
\* prefix of the bytes delivered to the sink; a chunk whose sink write
\* failed is never mirrored.
C28_MirrorBehindSink ==
    /\ IsPrefix(pipe.mirrored \o pipe.pending, net.delivered)
    /\ fwd.err = "write error" => fwd.pc \notin {"tee", "teeWait"}

C28_Witness ==
    /\ fwd.err = "write error" /\ fwd.buf = <<255, 1>>
    /\ pipe.mirrored = <<2, 38>> /\ net.delivered = <<2, 38>>
    /\ pipe.wclosed /\ par.pc = "ret"

(***************************************************************************)
(* Claims about the frames parseAndRecord extracts.                        *)
(***************************************************************************)
\* the uncompressed frames of the bytes b: the packets of the complete
\* frames, in order; rest, the bytes of a frame that b ends inside; bad,
\* whether a frame is not well formed (its length or its id does not read)
RECURSIVE splitFrames(_)
splitFrames(b) ==
    LET len   == readVarInt(b)
        frame == SubSeq(b, len.n + 1, len.n + len.lo)
        id    == readVarInt(frame)
        more  == splitFrames(SubSeq(b, len.n + len.lo + 1, Len(b)))
    IN  IF b = <<>> THEN [packets |-> <<>>, rest |-> <<>>, bad |-> FALSE]
        ELSE IF len.err = "EOF" THEN [packets |-> <<>>, rest |-> b, bad |-> FALSE]
        ELSE IF len.err # "nil" \/ len.hi > 0 \/ len.lo = 0 \/ len.lo > 8 * 1048576
        THEN [packets |-> <<>>, rest |-> b, bad |-> TRUE]
        ELSE IF Len(b) < len.n + len.lo THEN [packets |-> <<>>, rest |-> b, bad |-> FALSE]
        ELSE IF id.err # "nil" THEN [packets |-> <<>>, rest |-> b, bad |-> TRUE]
        ELSE [more EXCEPT !.packets =
                  <<[id |-> toInt32(id), payload |-> SubSeq(frame, id.n + 1, Len(frame))]>>
                      \o @]

\* the id and payload of every packet written, in the order of the calls
writtenPackets ==
    [i \in 1..Len(hist.written) |->
        [id |-> hist.written[i].id, payload |-> hist.written[i].payload]]

\* C24: without compression and while every WritePacket call succeeds, the
\* packets written are, in arrival order, the id (first VarInt) and payload
\* (remaining bytes) of the complete frames the parser was handed; after N
\* complete well-formed frames and end-of-input it has made exactly N calls
\* and returns io.EOF; when the input ends inside a frame it returns a
\* truncated-frame error (io.ErrUnexpectedEOF), nothing written for that frame.
C24_FrameExtraction ==
    (~par.compressionEnabled /\ hist.nPackets = Len(hist.written)) =>
        LET sp == splitFrames(pipe.mirrored)
        IN  /\ Len(writtenPackets) <= Len(sp.packets)
            /\ writtenPackets = SubSeq(sp.packets, 1, Len(writtenPackets))
            /\ (par.pc = "ret" /\ ~sp.bad) =>
                  /\ writtenPackets = sp.packets
                  /\ par.err = IF sp.rest = <<>> THEN "EOF" ELSE "unexpected EOF"

\* the container a Writer has produced, stored at a path
containerOf(w0) == [fileOf(w0) EXCEPT !.exists = TRUE]

\* C26: the container of a Writer whose Close has succeeded, after any
\* calls of WritePacket, SetSelfID, AddPlayer and CreateEntry or none at all,
\* passes ValidateFile: it has the recording entry and a metadata entry that
\* parses, with a non-empty format tag, a non-zero format version and a
\* non-empty generator.
C26_ClosedContainerValidates ==
    (w.closed /\ hist.op = "Close" /\ hist.ret = "nil") =>
        LET f    == containerOf(w)
            meta == UnmarshalMeta(f.entries[fileMap(f.entries, "metaData.json")].doc)
        IN  /\ ValidateFile(f).err = "nil"
            /\ ~structuralDefect(f)
            /\ meta.FileFormat # "" /\ meta.FileFormatVersion # 0 /\ meta.Generator # ""

C26_Witness ==
    /\ w.closed /\ hist.op = "Close" /\ hist.ret = "nil"
    /\ hist.nPackets = 0 /\ hist.nCalls = 1
    /\ recording = <<>>
    /\ ValidateFile(containerOf(w)).err = "nil"
    /\ UnmarshalMeta(w.entries[2].doc).Generator = "mc-replay-go"

====
